---------------------------- MODULE Spec2Model ----------------------------
(***************************************************************************)
(* A state-machine model of EyeTrackerWeb's camera pipeline                *)
(* (src/static/eye_tracker.py): the EyeTracker open/close lifecycle, the   *)
(* frames() generator with its frame counter and FPS window, the pipeline  *)
(* stages and the calibration model, and the wall clock and capture device *)
(* the tracker talks to; and, beside the tracker, the favorite phrases of  *)
(* a UserProfile (src/user_profile.py) and the word suggestions of a       *)
(* SuggestionGenerator (src/ai_suggestion.py).                             *)
(*                                                                         *)
(* Conventions.  Every public call of the tracker is one action.  A        *)
(* generator object returned by frames() is a separate piece of state: it  *)
(* runs no code until it is advanced, and each advance (Python's next())   *)
(* is one action.  The variable `last` records the call that was made last *)
(* and how it came back (returned, raised, yielded), which is all a caller *)
(* can observe.  Floats are exact rationals <<num, den>>.                  *)
(***************************************************************************)
EXTENDS Integers, Sequences, FiniteSets, TLC

(***************************************************************************)
(* Bounds of the model.                                                    *)
(***************************************************************************)
\* Wall-clock readings range over 0..MaxTime (whole seconds).
MaxTime == 1
\* VideoCapture objects constructed in one behaviour.
MaxCaps == 2
\* Generator objects obtained from frames() in one behaviour.
MaxGens == 2
\* Successful frame reads in one behaviour.
MaxReads == 2
\* A caller-supplied feature extractor returns vectors of 1..MaxFeatLen
\* numbers.
MaxFeatLen == 2
\* calibrate() is called with lists of up to MaxSamples samples, and
\* run_calibration_routine() with max_samples_per_target up to MaxSamples.
MaxSamples == 1
\* run_calibration_routine() is called with up to MaxTargets targets.
MaxTargets == 2
\* The FPS windows get_fps() is examined on hold up to MaxWindow samples.
MaxWindow == 3
\* fit() is called directly with lists of up to MaxFitSamples samples.
MaxFitSamples == 3
\* Up to MaxClosers close() calls of other threads are in progress at once.
MaxClosers == 2
\* The phrases add_favorite_phrase() and remove_favorite_phrase() are
\* called with hold up to MaxPhraseLen characters.
MaxPhraseLen == 2
\* A UserProfile holds up to MaxPhrases favorite phrases.
MaxPhrases == 3
\* suggest_words() is called with limits up to MaxLimit.
MaxLimit == 2
\* The fill-mask model returns up to MaxResults candidates.
MaxResults == 2

(***************************************************************************)
(* Program constants.                                                      *)
(***************************************************************************)
\* collections.deque(maxlen=60)
FpsWindowLen == 60
\* SuggestionConfig.max_word_suggestions
MaxWordSuggestions == 5

VARIABLES
    cv2_loaded,     \* "cv2" in globals(): the optional import succeeded
    np_loaded,      \* "np" in globals()
    cap,            \* EyeTracker._cap: 0 is None, else the VideoCapture's id
    is_open,        \* EyeTracker._is_open
    frame_count,    \* EyeTracker._frame_count
    last_frame_ts,  \* EyeTracker._last_frame_ts
    recent_fps,     \* EyeTracker._recent_fps, oldest sample first
    gen,            \* the generator objects frames() has returned
    now,            \* what time.time() returns
    ncaps,          \* VideoCapture objects constructed so far
    releases,       \* the release() calls made on the device, in order
    nreads,         \* successful reads made on the device, up to MaxReads
    eof_cap,        \* the handle whose read last failed, 0 if none has
    yielded,        \* frames yielded since the last successful open
    appended,       \* FPS samples appended since the last successful open
    preprocess_fn,      \* EyeTracker.preprocess_fn: "None" or "fn"
    feature_extractor,  \* EyeTracker.feature_extractor: "None" or "fn"
    gaze_estimator,     \* EyeTracker.gaze_estimator: "None" or "fn"
    model_W,        \* EyeTracker.calibration_model.W, <<>> is None
    model_b,        \* EyeTracker.calibration_model.b, <<>> is None
    loop,           \* the run_inference_loop / run_calibration_routine call
                    \* in progress: its arguments, locals and position
    calls,          \* the callback calls of the current or last routine call
    last,           \* the last call and its outcome
    closing,        \* the `cap` locals of the close() calls that other
                    \* threads have in progress
    other,          \* the run_inference_loop() call a second thread has in
                    \* progress: its position and its generator
    favorite_phrases,       \* UserProfile.favorite_phrases
    cache_word,             \* SuggestionGenerator._cache_word
    enable_cache,           \* SuggestionConfig.enable_cache
    fallback_common_words   \* SuggestionConfig.fallback_common_words

vars == <<cv2_loaded, np_loaded, cap, is_open, frame_count, last_frame_ts,
          recent_fps, gen, now, ncaps, releases, nreads, eof_cap, yielded,
          appended, preprocess_fn, feature_extractor, gaze_estimator, model_W,
          model_b, loop, calls, last, closing, other, favorite_phrases,
          cache_word, enable_cache, fallback_common_words>>

tracker == <<cap, is_open, frame_count, last_frame_ts, recent_fps>>
device == <<ncaps, releases, nreads, eof_cap>>
history == <<yielded, appended>>
imports == <<cv2_loaded, np_loaded>>
stages == <<preprocess_fn, feature_extractor, gaze_estimator>>
model == <<model_W, model_b>>
pipeline == <<stages, model>>
routine == <<loop, calls>>
threads == <<closing, other>>
\* The objects of the modules beside the tracker: a UserProfile
\* (src/user_profile.py) and a SuggestionGenerator (src/ai_suggestion.py).
suggester == <<cache_word, enable_cache, fallback_common_words>>
apps == <<favorite_phrases, suggester>>

(***************************************************************************)
(* Values.                                                                 *)
(***************************************************************************)
None == 0
\* None in a field that otherwise holds a list.
Unset == <<>>
\* stop_after_seconds = None.
NoLimit == -1

\* No run_inference_loop / run_calibration_routine call is in progress.
NoLoop ==
    [kind |-> "none", pc |-> "", g |-> 0, cb |-> FALSE, limit |-> NoLimit,
     max |-> 0, targets |-> <<>>, visited |-> 0, target |-> <<>>,
     start |-> 0, count |-> 0,
     collected |-> <<>>, ts |-> 0, frame |-> 0, err |-> ""]

\* No second thread is inside run_inference_loop().
NoOther == [pc |-> "", g |-> 0, err |-> ""]

\* Text is a sequence of one-character strings, so that stripping and
\* searching are computed on it.
Yes == <<"y", "e", "s">>
No == <<"n", "o">>
Okay == <<"o", "k", "a", "y">>
\* SuggestionConfig.fallback_common_words as shipped (its first words).
DefaultFallbackWords == <<Yes, No, Okay>>
\* An empty dict.
EmptyDict == [k \in {} |-> <<>>]
\* A new UserProfile and a new SuggestionGenerator with the default
\* configuration.
AppsFresh ==
    /\ favorite_phrases = <<>>
    /\ cache_word = EmptyDict
    /\ enable_cache = TRUE
    /\ fallback_common_words = DefaultFallbackWords

\* The messages of the EyeTrackerError raise sites.
ErrCv2Required == "OpenCV (cv2) is required to open camera streams."
ErrCreateFailed == "Failed to create VideoCapture"
ErrUnableToOpen == "Unable to open video source"
ErrCv2NpRequired == "OpenCV (cv2) and NumPy (np) are required for frame access."
ErrStreamNotOpen == "Stream is not open. Call open() first."
ErrCalibNotOpen == "Camera must be open before running calibration."
ErrInferNotOpen == "Camera must be open before inference loop."

\* The error kinds of the specification, as sets of raise sites.
DeviceUnavailable == {ErrCreateFailed, ErrUnableToOpen}
StreamNotOpen == {ErrStreamNotOpen, ErrCalibNotOpen, ErrInferNotOpen}

\* What a caller sees of a call: how it came back (out), the message of the
\* error it raised (err), the generator it was made on (g), what the
\* device did during it (dev),
\* and the value it returned or yielded (val, a tuple).
Returned(op) ==
    [op |-> op, out |-> "return", err |-> "", g |-> 0, dev |-> "", val |-> <<>>]
Raised(op, msg) ==
    [op |-> op, out |-> "raise", err |-> msg, g |-> 0, dev |-> "", val |-> <<>>]
ReturnedVal(op, v) == [Returned(op) EXCEPT !.val = v]
\* next() yielded the pair (ts, frame).
Yielded(i, ts, frame) ==
    [op |-> "next", out |-> "yield", err |-> "", g |-> i, dev |-> "read_ok",
     val |-> <<ts, frame>>]
Stopped(i, d) ==
    [op |-> "next", out |-> "stop", err |-> "", g |-> i, dev |-> d, val |-> <<>>]

\* A generator object: not started, suspended at its yield, or finished.
GenCreated == "created"
GenSuspended == "suspended"
GenClosed == "closed"

\* Exact rationals in lowest terms.
RECURSIVE Gcd(_, _)
Gcd(a, b) == IF b = 0 THEN a ELSE Gcd(b, a % b)
Frac(n, d) == <<n \div Gcd(n, d), d \div Gcd(n, d)>>

(***************************************************************************)
(* The FPS window: collections.deque(maxlen=60).                           *)
(***************************************************************************)
DequeAppendUnbounded(q, x) == Append(q, x)
DequeAppend(q, x) ==
    IF Len(q) >= FpsWindowLen THEN Append(Tail(q), x) ELSE Append(q, x)

(***************************************************************************)
(* Initial state: a freshly constructed EyeTracker, no generator yet.      *)
(***************************************************************************)
Fresh ==
    /\ cap = None
    /\ is_open = FALSE
    /\ frame_count = 0
    /\ last_frame_ts = 0
    /\ recent_fps = <<>>

\* A new tracker, nothing called on it yet.
TrackerNew ==
    /\ cv2_loaded \in BOOLEAN
    /\ np_loaded \in BOOLEAN
    /\ Fresh
    /\ gen = <<>>
    /\ now \in 0..MaxTime
    /\ ncaps = 0
    /\ releases = <<>>
    /\ nreads = 0
    /\ eof_cap = None
    /\ yielded = 0
    /\ appended = 0
    /\ preprocess_fn = "None"
    /\ feature_extractor = "None"
    /\ gaze_estimator = "None"
    /\ model_W = Unset
    /\ model_b = Unset
    /\ loop = NoLoop
    /\ calls = <<>>
    /\ last = Returned("init")
    /\ closing = <<>>
    /\ other = NoOther

Init ==
    /\ TrackerNew
    /\ AppsFresh

(***************************************************************************)
(* EyeTracker.open                                                         *)
(***************************************************************************)
\* cv2.VideoCapture(...) raised, or returned an object, opened or not.
CaptureOutcomes == {"throws", "closed", "opened"}

\* open() when cv2 was not imported.
OpenNoCv2 ==
    /\ last' = Raised("open", ErrCv2Required)
    /\ UNCHANGED <<tracker, ncaps, history>>

\* open() on a tracker that is already open.
OpenAlreadyResets ==
    /\ last' = Returned("open")
    /\ frame_count' = 0
    /\ last_frame_ts' = now
    /\ recent_fps' = <<>>
    /\ UNCHANGED <<cap, is_open, ncaps, history>>
OpenAlready ==
    /\ last' = Returned("open")
    /\ UNCHANGED <<tracker, ncaps, history>>

\* open() whose VideoCapture could not be created (made = 0) or was created
\* (made = 1) but does not report itself opened.
OpenFailedStoresCap(outcome, msg, made) ==
    /\ last' = [Raised("open", msg) EXCEPT !.dev = outcome]
    /\ ncaps' = ncaps + made
    /\ cap' = ncaps + made
    /\ UNCHANGED <<is_open, frame_count, last_frame_ts, recent_fps, history>>
OpenFailed(outcome, msg, made) ==
    /\ last' = [Raised("open", msg) EXCEPT !.dev = outcome]
    /\ ncaps' = ncaps + made
    /\ UNCHANGED <<tracker, history>>

OpenStoreNoFlag(h) ==
    /\ cap' = h
    /\ is_open' = is_open
    /\ frame_count' = 0
    /\ last_frame_ts' = now
    /\ recent_fps' = <<>>
\* The assignments that end a successful open().
OpenStore(h) ==
    /\ cap' = h
    /\ is_open' = TRUE
    /\ frame_count' = 0
    /\ last_frame_ts' = now
    /\ recent_fps' = <<>>

OpenCapture ==
    /\ ncaps < MaxCaps
    /\ \E outcome \in CaptureOutcomes :
         CASE outcome = "throws" -> OpenFailed(outcome, ErrCreateFailed, 0)
           [] outcome = "closed" -> OpenFailed(outcome, ErrUnableToOpen, 1)
           [] outcome = "opened" ->
                /\ last' = [Returned("open") EXCEPT !.dev = outcome]
                /\ ncaps' = ncaps + 1
                /\ OpenStore(ncaps + 1)
                /\ yielded' = 0
                /\ appended' = 0

Open ==
    /\ UNCHANGED <<imports, apps, threads, gen, now, releases, nreads, eof_cap, pipeline,
                   routine>>
    /\ IF ~cv2_loaded THEN OpenNoCv2
       ELSE IF is_open THEN OpenAlready
       ELSE OpenCapture

(***************************************************************************)
(* EyeTracker.close                                                        *)
(***************************************************************************)
CloseClearKeepsOpen ==
    /\ is_open' = is_open
    /\ cap' = None
CloseClear ==
    /\ is_open' = FALSE
    /\ cap' = None

\* cap.release() is called on the handle that was held, if any; it may raise
\* (ok = FALSE), which close() suppresses.
CloseReleaseAlways(h) ==
    \E ok \in BOOLEAN :
      /\ releases' = Append(releases, h)
      /\ last' = [Returned("close") EXCEPT
                    !.dev = IF ok THEN "release_ok" ELSE "release_failed"]
CloseRelease(h) ==
    IF h # None
    THEN \E ok \in BOOLEAN :
           /\ releases' = Append(releases, h)
           /\ last' = [Returned("close") EXCEPT
                         !.dev = IF ok THEN "release_ok" ELSE "release_failed"]
    ELSE /\ UNCHANGED releases
         /\ last' = Returned("close")

Close ==
    /\ CloseClear
    /\ CloseRelease(cap)
    /\ UNCHANGED <<imports, apps, threads, frame_count, last_frame_ts, recent_fps, gen, now,
                   ncaps, nreads, eof_cap, history, pipeline, routine>>

(***************************************************************************)
(* EyeTracker.frames: calling it only makes the generator object; none of  *)
(* its body runs before the first advance.                                 *)
(***************************************************************************)
Frames ==
    /\ Len(gen) < MaxGens
    /\ gen' = Append(gen, GenCreated)
    /\ last' = [Returned("frames") EXCEPT !.g = Len(gen) + 1]
    /\ UNCHANGED <<imports, apps, threads, tracker, now, device, history, pipeline, routine>>

(***************************************************************************)
(* Advancing a generator: the body of frames() up to its next yield.       *)
(***************************************************************************)
\* The checks before the loop, run on the first advance only: the message
\* of the error raised, or "" when they pass.
FramesPrecheck ==
    IF ~cv2_loaded \/ ~np_loaded THEN ErrCv2NpRequired
    ELSE IF ~is_open \/ cap = None THEN ErrStreamNotOpen
    ELSE ""

\* The loop condition.
FramesLoopCond == is_open /\ cap # None

\* The bookkeeping of one successful read at time ts (appended counts the
\* samples appended).
FramesRecordNonZero(ts) ==
    /\ frame_count' = frame_count + 1
    /\ last_frame_ts' = ts
    /\ LET dt == ts - last_frame_ts IN
         IF dt # 0
         THEN /\ recent_fps' = DequeAppend(recent_fps, <<1, dt>>)
              /\ appended' = appended + 1
         ELSE UNCHANGED <<recent_fps, appended>>
FramesRecord(ts) ==
    /\ frame_count' = frame_count + 1
    /\ last_frame_ts' = ts
    /\ LET dt == ts - last_frame_ts IN
         IF dt > 0
         THEN /\ recent_fps' = DequeAppend(recent_fps, Frac(1, dt))
              /\ appended' = appended + 1
         ELSE UNCHANGED <<recent_fps, appended>>

\* A read that failed: the generator returns.
FramesReadFailedCounts(g) ==
    /\ gen' = [gen EXCEPT ![g] = GenClosed]
    /\ last' = Stopped(g, "read_failed")
    /\ eof_cap' = cap
    /\ frame_count' = frame_count + 1
    /\ UNCHANGED <<cap, is_open, last_frame_ts, recent_fps, ncaps, releases,
                   nreads, history>>
FramesReadFailed(g) ==
    /\ gen' = [gen EXCEPT ![g] = GenClosed]
    /\ last' = Stopped(g, "read_failed")
    /\ eof_cap' = cap
    /\ UNCHANGED <<tracker, ncaps, releases, nreads, history>>

\* self._cap.read() on a handle and what follows it up to the yield.
FramesRead(g) ==
    \E ok \in BOOLEAN :
      IF ~ok
      THEN FramesReadFailed(g)
      ELSE /\ nreads < MaxReads
           /\ nreads' = nreads + 1
           /\ FramesRecord(now)
           /\ yielded' = yielded + 1
           /\ gen' = [gen EXCEPT ![g] = GenSuspended]
           /\ last' = Yielded(g, now, nreads + 1)
           /\ UNCHANGED <<cap, is_open, ncaps, releases, eof_cap>>

\* One pass of the loop of generator g, whose precheck has passed.
FramesLoop(g) ==
    IF ~FramesLoopCond
    THEN /\ gen' = [gen EXCEPT ![g] = GenClosed]
         /\ last' = Stopped(g, "")
         /\ UNCHANGED <<tracker, device, history>>
    ELSE FramesRead(g)

\* Advancing a generator that has finished: StopIteration, nothing runs.
GenFinishedRestarts(g) == FramesLoop(g)
GenFinished(g) ==
    /\ last' = Stopped(g, "")
    /\ UNCHANGED <<tracker, gen, device, history>>

GenAdvance(g) ==
    /\ g \in 1..Len(gen)
    /\ UNCHANGED <<imports, apps, threads, now, pipeline, calls>>
    /\ CASE gen[g] = GenCreated ->
              IF FramesPrecheck # ""
              THEN /\ gen' = [gen EXCEPT ![g] = GenClosed]
                   /\ last' = [Raised("next", FramesPrecheck) EXCEPT !.g = g]
                   /\ UNCHANGED <<tracker, device, history>>
              ELSE FramesLoop(g)
         [] gen[g] = GenSuspended -> FramesLoop(g)
         [] gen[g] = GenClosed -> GenFinished(g)

\* next() called on a generator by the caller that obtained it.
GenNext(g) ==
    /\ GenAdvance(g)
    /\ UNCHANGED loop

(***************************************************************************)
(* EyeTracker.get_fps                                                      *)
(***************************************************************************)
FracLeq(x, y) == x[1] * y[2] <= y[1] * x[2]
FracAdd(x, y) == Frac(x[1] * y[2] + y[1] * x[2], x[2] * y[2])
FracHalf(x) == Frac(x[1], 2 * x[2])

\* sorted(): ascending.
RECURSIVE SortedInsert(_, _)
SortedInsert(x, q) ==
    IF q = <<>> THEN <<x>>
    ELSE IF FracLeq(x, Head(q)) THEN <<x>> \o q
    ELSE <<Head(q)>> \o SortedInsert(x, Tail(q))
RECURSIVE Sorted(_)
Sorted(q) == IF q = <<>> THEN <<>> ELSE SortedInsert(Head(q), Sorted(Tail(q)))

\* The value get_fps() returns for the window q (indices here start at 1).
FpsOfUnsorted(q) ==
    IF q = <<>> THEN Frac(0, 1)
    ELSE LET arr == q
             mid == Len(arr) \div 2
         IN IF Len(arr) % 2 = 1 THEN arr[mid + 1]
            ELSE FracHalf(FracAdd(arr[mid], arr[mid + 1]))
FpsOf(q) ==
    IF q = <<>> THEN Frac(0, 1)
    ELSE LET arr == Sorted(q)
             mid == Len(arr) \div 2
         IN IF Len(arr) % 2 = 1 THEN arr[mid + 1]
            ELSE FracHalf(FracAdd(arr[mid], arr[mid + 1]))

GetFpsRequiresOpen ==
    /\ last' = IF is_open THEN ReturnedVal("get_fps", FpsOf(recent_fps))
               ELSE Raised("get_fps", ErrStreamNotOpen)
    /\ UNCHANGED <<imports, apps, threads, tracker, gen, now, device, history, pipeline,
                   routine>>
GetFps ==
    /\ last' = ReturnedVal("get_fps", FpsOf(recent_fps))
    /\ UNCHANGED <<imports, apps, threads, tracker, gen, now, device, history, pipeline,
                   routine>>

(***************************************************************************)
(* The pipeline stages.  A frame is the number of the read that produced   *)
(* it, an image of that uniform gray level.                                *)
(***************************************************************************)
ErrPreprocessFailed == "Preprocess function failed"
ErrFeatureFailed == "Feature extractor failed"
ErrNpRequired == "NumPy (np) is required for default feature extraction."
ErrGazeFailed == "Gaze estimator failed"

\* What the caller-supplied stage functions return when they return: an
\* inverted image, and a gaze point off the unit square.
UserPreprocess(frame) == 255 - frame
UserGaze(features) == <<Frac(2, 1), Frac(2, 1)>>

\* The frames the stages are called with.
FrameInputs == 1..MaxReads
\* The feature vectors the stages are called with and caller-supplied
\* extractors return.
FeatureInputs == UNION {[1..n -> {0}] : n \in 1..MaxFeatLen}

\* A stage's outcome: the message of the error raised ("" if none) and the
\* value returned.
StageOk(v) == [err |-> "", val |-> v]
StageErr(msg) == [err |-> msg, val |-> <<>>]

\* process_frame(frame): the outcomes it can have.
ProcessFrameOutcomes(frame) ==
    IF preprocess_fn # "None"
    THEN {StageOk(<<UserPreprocess(frame)>>), StageErr(ErrPreprocessFailed)}
    ELSE {StageOk(<<frame>>)}

\* The default features: mean and standard deviation of the gray levels.
DefaultFeatures(frame) == <<frame, 0>>

ExtractFeaturesWrongKind(frame) ==
    IF feature_extractor # "None"
    THEN {StageOk(f) : f \in FeatureInputs} \cup {StageErr(ErrPreprocessFailed)}
    ELSE IF ~np_loaded THEN {StageErr(ErrNpRequired)}
    ELSE {StageOk(DefaultFeatures(frame))}
\* extract_features(frame).
ExtractFeaturesOutcomes(frame) ==
    IF feature_extractor # "None"
    THEN {StageOk(f) : f \in FeatureInputs} \cup {StageErr(ErrFeatureFailed)}
    ELSE IF ~np_loaded THEN {StageErr(ErrNpRequired)}
    ELSE {StageOk(DefaultFeatures(frame))}

\* CalibrationModel.predict: (nan, nan) before any fit, nan being 0/0.
NaN == <<0, 0>>
Predict(features) ==
    IF model_W = Unset \/ model_b = Unset THEN <<NaN, NaN>>
    ELSE <<model_b[1], model_b[2]>>

EstimateGazeIgnoresModel(features) ==
    IF gaze_estimator # "None"
    THEN {StageOk(UserGaze(features)), StageErr(ErrGazeFailed)}
    ELSE {StageOk(<<NaN, NaN>>)}
\* estimate_gaze(features).
EstimateGazeOutcomes(features) ==
    IF gaze_estimator # "None"
    THEN {StageOk(UserGaze(features)), StageErr(ErrGazeFailed)}
    ELSE {StageOk(Predict(features))}

\* A stage call's outcome as the caller sees it.
StageResult(op, o) ==
    IF o.err # "" THEN Raised(op, o.err) ELSE ReturnedVal(op, o.val)

ProcessFrame ==
    /\ \E frame \in FrameInputs : \E o \in ProcessFrameOutcomes(frame) :
         last' = StageResult("process_frame", o)
    /\ UNCHANGED <<imports, apps, threads, tracker, gen, now, device, history, pipeline,
                   routine>>

ExtractFeatures ==
    /\ \E frame \in FrameInputs : \E o \in ExtractFeaturesOutcomes(frame) :
         last' = StageResult("extract_features", o)
    /\ UNCHANGED <<imports, apps, threads, tracker, gen, now, device, history, pipeline,
                   routine>>

EstimateGazeClearsModel ==
    /\ \E f \in FeatureInputs : \E o \in EstimateGazeOutcomes(f) :
         last' = StageResult("estimate_gaze", o)
    /\ model_W' = Unset
    /\ model_b' = Unset
    /\ UNCHANGED <<imports, apps, threads, tracker, gen, now, device, history, stages,
                   routine>>
EstimateGaze ==
    /\ \E f \in FeatureInputs : \E o \in EstimateGazeOutcomes(f) :
         last' = StageResult("estimate_gaze", o)
    /\ UNCHANGED <<imports, apps, threads, tracker, gen, now, device, history, pipeline,
                   routine>>

\* set_preprocess, set_feature_extractor, set_gaze_estimator.
SetPreprocess ==
    /\ preprocess_fn' = "fn"
    /\ last' = Returned("set_preprocess")
    /\ UNCHANGED <<imports, apps, threads, tracker, gen, now, device, history,
                   feature_extractor, gaze_estimator, model, routine>>

SetFeatureExtractor ==
    /\ feature_extractor' = "fn"
    /\ last' = Returned("set_feature_extractor")
    /\ UNCHANGED <<imports, apps, threads, tracker, gen, now, device, history,
                   preprocess_fn, gaze_estimator, model, routine>>

SetGazeEstimator ==
    /\ gaze_estimator' = "fn"
    /\ last' = Returned("set_gaze_estimator")
    /\ UNCHANGED <<imports, apps, threads, tracker, gen, now, device, history,
                   preprocess_fn, feature_extractor, model, routine>>

(***************************************************************************)
(* CalibrationModel.fit and EyeTracker.calibrate                           *)
(***************************************************************************)
ErrNoSamples == "No calibration samples provided."
ErrInconsistentDim == "Inconsistent feature dimensions in samples."
\* calibrate() wraps whatever fit() raised.
ErrCalibrationFailed(msg) == "Calibration failed: " \o msg

CalibrationSample(f, xy, ts) == [features |-> f, target_xy |-> xy, timestamp |-> ts]

\* The targets and the sample lists calibrate() is called with.
TargetInputs == {<<0, 0>>, <<1, 1>>}
SampleInputs ==
    UNION {[1..n -> {CalibrationSample(f, xy, 0) :
                       f \in FeatureInputs, xy \in TargetInputs}] :
             n \in 0..MaxSamples}

\* The message of the error fit(samples) raises, "" if it raises none.
FitErrorChecksSecond(samples) ==
    IF samples = <<>> THEN ErrNoSamples
    ELSE IF \E i \in 1..Len(samples) :
              i <= 2 /\ Len(samples[i].features) # Len(samples[1].features)
    THEN ErrInconsistentDim
    ELSE ""
FitError(samples) ==
    IF samples = <<>> THEN ErrNoSamples
    ELSE IF \E i \in 1..Len(samples) :
              Len(samples[i].features) # Len(samples[1].features)
    THEN ErrInconsistentDim
    ELSE ""

RECURSIVE SumTargets(_, _)
SumTargets(samples, k) ==
    IF samples = <<>> THEN 0
    ELSE Head(samples).target_xy[k] + SumTargets(Tail(samples), k)

\* The parameters a successful fit(samples) stores.
FitW(samples) == [r \in 1..2 |-> [i \in 1..Len(samples[1].features) |-> 0]]
FitBSum(samples) ==
    <<Frac(SumTargets(samples, 1), 1), Frac(SumTargets(samples, 2), 1)>>
FitB(samples) ==
    <<Frac(SumTargets(samples, 1), Len(samples)),
      Frac(SumTargets(samples, 2), Len(samples))>>

\* fit(samples) on the tracker's model.
FitStoresBeforeCheck(samples) ==
    IF samples = <<>>
    THEN UNCHANGED model
    ELSE /\ model_W' = FitW(samples)
         /\ model_b' = FitB(samples)
FitClearsOnError(samples) ==
    IF FitError(samples) # ""
    THEN model_W' = Unset /\ model_b' = Unset
    ELSE /\ model_W' = FitW(samples)
         /\ model_b' = FitB(samples)
FitKeepsBias(samples) ==
    IF FitError(samples) # ""
    THEN UNCHANGED model
    ELSE /\ model_W' = FitW(samples)
         /\ model_b' = IF model_b = Unset THEN FitB(samples) ELSE model_b
Fit(samples) ==
    IF FitError(samples) # ""
    THEN UNCHANGED model
    ELSE /\ model_W' = FitW(samples)
         /\ model_b' = FitB(samples)

(***************************************************************************)
(* CalibrationModel.fit and CalibrationModel.predict called directly on    *)
(* the tracker's calibration_model.                                        *)
(***************************************************************************)
\* The samples fit() is called with: feature vectors of two lengths, targets
\* with equal and with different coordinates.
FitSampleInputs ==
    {CalibrationSample(<<1, 2>>, <<0, 0>>, 0),
     CalibrationSample(<<1, 2>>, <<1, 1>>, 0),
     CalibrationSample(<<1, 2, 3>>, <<1, 0>>, 0)}
FitInputs == UNION {[1..n -> FitSampleInputs] : n \in 0..MaxFitSamples}
\* The feature vectors predict() is called with.
PredictInputs == {<<>>, <<0>>, <<5, 7>>, <<1, 2, 3>>}

ModelFit(samples) ==
    /\ Fit(samples)
    /\ last' = IF FitError(samples) # "" THEN Raised("fit", FitError(samples))
               ELSE Returned("fit")
    /\ UNCHANGED <<imports, apps, threads, tracker, gen, now, device, history, stages,
                   routine>>

ModelPredict(features) ==
    /\ last' = ReturnedVal("predict", Predict(features))
    /\ UNCHANGED <<imports, apps, threads, tracker, gen, now, device, history, pipeline,
                   routine>>

Calibrate ==
    /\ \E samples \in SampleInputs :
         /\ Fit(samples)
         /\ last' = IF FitError(samples) # ""
                    THEN Raised("calibrate", ErrCalibrationFailed(FitError(samples)))
                    ELSE Returned("calibrate")
    /\ UNCHANGED <<imports, apps, threads, tracker, gen, now, device, history, stages,
                   routine>>

(***************************************************************************)
(* The two routines that drain the frame sequence.  A call in progress is  *)
(* the record `loop`; it advances one generator step or one loop body at a *)
(* time, so that the clock can move and close() can be called in between.  *)
(* `last` follows the caller's calls and the advances of generators, not   *)
(* the stage calls a routine makes.                                        *)
(***************************************************************************)
\* The call has been entered and has not come back yet.
Running(op) ==
    [op |-> op, out |-> "running", err |-> "", g |-> 0, dev |-> "", val |-> <<>>]

\* The arguments the routines are called with.
StopAfterInputs == {NoLimit} \cup 0..MaxTime
SecondsInputs == 1..MaxTime
TargetListInputs == UNION {[1..n -> TargetInputs] : n \in 0..MaxTargets}
\* Entries of a target list that are no (x, y) pair: a 1-tuple and a
\* 3-tuple.
MalformedInputs == {<<0>>, <<0, 0, 0>>}
\* Target lists with at least one such entry, at any position.
MalformedListInputs ==
    UNION {[1..n -> TargetInputs \cup MalformedInputs] : n \in 1..MaxTargets}
      \ TargetListInputs
\* What `for tx, ty in targets` raises on an entry (a ValueError), "" for
\* a pair.
UnpackError(t) ==
    IF Len(t) < 2 THEN "not enough values to unpack (expected 2, got 1)"
    ELSE IF Len(t) > 2 THEN "too many values to unpack (expected 2)"
    ELSE ""

\* What the routine does with the outcome of next(frame_iter), left in
\* last': go on to the body with the pair yielded, or to `stopped`, or let
\* the error propagate.
AfterNext(stopped) ==
    loop' = CASE last'.out = "yield" ->
                   [loop EXCEPT !.pc = "body", !.ts = last'.val[1],
                                !.frame = last'.val[2]]
              [] last'.out = "stop" -> [loop EXCEPT !.pc = stopped]
              [] last'.out = "raise" ->
                   [loop EXCEPT !.pc = "raise", !.err = last'.err]

LoopRaise(msg) == loop' = [loop EXCEPT !.pc = "raise", !.err = msg]

CallbackTwice(name, args) ==
    IF loop.cb
    THEN \E raised \in BOOLEAN :
           calls' = calls \o <<[cb |-> name, args |-> args, raised |-> raised],
                               [cb |-> name, args |-> args, raised |-> raised]>>
    ELSE UNCHANGED calls
\* A callback call: it returns or raises, and what it raises is suppressed.
Callback(name, args) ==
    IF loop.cb
    THEN \E raised \in BOOLEAN :
           calls' = Append(calls, [cb |-> name, args |-> args, raised |-> raised])
    ELSE UNCHANGED calls

(***************************************************************************)
(* EyeTracker.run_inference_loop                                           *)
(***************************************************************************)
RunInferenceLoop ==
    /\ loop = NoLoop
    /\ IF ~is_open
       THEN /\ last' = Raised("run_inference_loop", ErrInferNotOpen)
            /\ UNCHANGED <<gen, loop>>
       ELSE /\ Len(gen) < MaxGens
            /\ gen' = Append(gen, GenCreated)
            /\ \E cb \in BOOLEAN, limit \in StopAfterInputs :
                 loop' = [NoLoop EXCEPT !.kind = "infer", !.pc = "next",
                                        !.g = Len(gen) + 1, !.start = now,
                                        !.cb = cb, !.limit = limit]
            /\ last' = Running("run_inference_loop")
    /\ calls' = IF is_open THEN <<>> ELSE calls
    /\ UNCHANGED <<imports, apps, threads, tracker, now, device, history, pipeline>>

\* for ts, frame in self.frames(): one advance.
InferNext ==
    /\ loop.kind = "infer" /\ loop.pc = "next"
    /\ GenAdvance(loop.g)
    /\ AfterNext("return")

InferDeadlineNever == "next"
\* The deadline check that ends an iteration.
InferDeadline ==
    IF loop.limit # NoLimit /\ now - loop.start >= loop.limit
    THEN "return" ELSE "next"

InferBodyCallbackStops ==
    /\ loop.kind = "infer" /\ loop.pc = "body"
    /\ \E p \in ProcessFrameOutcomes(loop.frame) :
         IF p.err # "" THEN LoopRaise(p.err) /\ UNCHANGED calls
         ELSE \E f \in ExtractFeaturesOutcomes(p.val[1]) :
           IF f.err # "" THEN LoopRaise(f.err) /\ UNCHANGED calls
           ELSE \E z \in EstimateGazeOutcomes(f.val) :
             IF z.err # "" THEN LoopRaise(z.err) /\ UNCHANGED calls
             ELSE /\ Callback("on_result", <<loop.ts, p.val[1], z.val, f.val>>)
                  /\ loop' = [loop EXCEPT
                                !.pc = IF calls' # calls
                                          /\ calls'[Len(calls')].raised
                                       THEN "return" ELSE InferDeadline]
    /\ UNCHANGED <<imports, apps, threads, tracker, gen, now, device, history, pipeline, last>>
\* The body of one iteration.
InferBody ==
    /\ loop.kind = "infer" /\ loop.pc = "body"
    /\ \E p \in ProcessFrameOutcomes(loop.frame) :
         IF p.err # "" THEN LoopRaise(p.err) /\ UNCHANGED calls
         ELSE \E f \in ExtractFeaturesOutcomes(p.val[1]) :
           IF f.err # "" THEN LoopRaise(f.err) /\ UNCHANGED calls
           ELSE \E z \in EstimateGazeOutcomes(f.val) :
             IF z.err # "" THEN LoopRaise(z.err) /\ UNCHANGED calls
             ELSE /\ Callback("on_result", <<loop.ts, p.val[1], z.val, f.val>>)
                  /\ loop' = [loop EXCEPT !.pc = InferDeadline]
    /\ UNCHANGED <<imports, apps, threads, tracker, gen, now, device, history, pipeline, last>>

(***************************************************************************)
(* EyeTracker.run_calibration_routine                                      *)
(***************************************************************************)
RunCalibration(lists, caps) ==
    /\ loop = NoLoop
    /\ IF ~is_open
       THEN /\ last' = Raised("run_calibration_routine", ErrCalibNotOpen)
            /\ UNCHANGED <<gen, loop>>
       ELSE /\ Len(gen) < MaxGens
            /\ gen' = Append(gen, GenCreated)
            /\ \E targets \in lists, secs \in SecondsInputs,
                  max \in caps, cb \in BOOLEAN :
                 loop' = [NoLoop EXCEPT !.kind = "calib", !.pc = "target",
                                        !.g = Len(gen) + 1, !.cb = cb,
                                        !.targets = targets, !.limit = secs,
                                        !.max = max]
            /\ last' = Running("run_calibration_routine")
    /\ calls' = IF is_open THEN <<>> ELSE calls
    /\ UNCHANGED <<imports, apps, threads, tracker, now, device, history, pipeline>>

\* The routine called with a list of (x, y) pairs.
RunCalibrationRoutine == RunCalibration(TargetListInputs, 1..MaxSamples)
\* The routine called with a list that has a malformed entry.
RunCalibrationMalformed == RunCalibration(MalformedListInputs, 1..MaxSamples)
\* The routine called with a cap that lets one target take two frames.
RunCalibrationLong == RunCalibration(TargetListInputs, 1..(MaxSamples + 1))

\* for tx, ty in targets: the next target, or the end of the list; an
\* entry that does not unpack into two names raises here, when the loop
\* comes to it.
CalibTargetReversed ==
    /\ loop.kind = "calib" /\ loop.pc = "target"
    /\ loop' = IF loop.visited = Len(loop.targets)
               THEN [loop EXCEPT !.pc = "fit"]
               ELSE [loop EXCEPT !.pc = "while", !.visited = loop.visited + 1,
                                 !.target = loop.targets[Len(loop.targets) - loop.visited],
                                 !.start = now, !.count = 0]
    /\ UNCHANGED <<imports, apps, threads, tracker, gen, now, device, history, pipeline,
                   calls, last>>
CalibTarget ==
    /\ loop.kind = "calib" /\ loop.pc = "target"
    /\ loop' = IF loop.visited = Len(loop.targets)
               THEN [loop EXCEPT !.pc = "fit"]
               ELSE IF UnpackError(loop.targets[loop.visited + 1]) # ""
               THEN [loop EXCEPT !.pc = "raise",
                                 !.err = UnpackError(loop.targets[loop.visited + 1])]
               ELSE [loop EXCEPT !.pc = "while", !.visited = loop.visited + 1,
                                 !.target = loop.targets[loop.visited + 1],
                                 !.start = now, !.count = 0]
    /\ UNCHANGED <<imports, apps, threads, tracker, gen, now, device, history, pipeline,
                   calls, last>>

\* The while condition and, when it holds, next(frame_iter); a StopIteration
\* breaks out of the while loop only.
CalibWhileIgnoresCap ==
    /\ loop.kind = "calib" /\ loop.pc = "while"
    /\ IF now - loop.start < loop.limit
       THEN /\ GenAdvance(loop.g)
            /\ AfterNext("target")
       ELSE /\ loop' = [loop EXCEPT !.pc = "target"]
            /\ UNCHANGED <<imports, apps, threads, tracker, gen, now, device, history,
                           pipeline, calls, last>>
CalibWhile ==
    /\ loop.kind = "calib" /\ loop.pc = "while"
    /\ IF now - loop.start < loop.limit /\ loop.count < loop.max
       THEN /\ GenAdvance(loop.g)
            /\ AfterNext("target")
       ELSE /\ loop' = [loop EXCEPT !.pc = "target"]
            /\ UNCHANGED <<imports, apps, threads, tracker, gen, now, device, history,
                           pipeline, calls, last>>

CalibBodyCallbackAborts ==
    /\ loop.kind = "calib" /\ loop.pc = "body"
    /\ \E p \in ProcessFrameOutcomes(loop.frame) :
         IF p.err # "" THEN LoopRaise(p.err) /\ UNCHANGED calls
         ELSE \E f \in ExtractFeaturesOutcomes(p.val[1]) :
           IF f.err # "" THEN LoopRaise(f.err) /\ UNCHANGED calls
           ELSE LET sample == CalibrationSample(f.val, loop.target, loop.ts) IN
                  /\ Callback("on_sample", <<sample>>)
                  /\ loop' = [loop EXCEPT
                                !.collected = Append(loop.collected, sample),
                                !.count = loop.count + 1,
                                !.pc = IF calls' # calls
                                          /\ calls'[Len(calls')].raised
                                       THEN "target" ELSE "while"]
    /\ UNCHANGED <<imports, apps, threads, tracker, gen, now, device, history, pipeline, last>>
\* The body of the while loop.
CalibBody ==
    /\ loop.kind = "calib" /\ loop.pc = "body"
    /\ \E p \in ProcessFrameOutcomes(loop.frame) :
         IF p.err # "" THEN LoopRaise(p.err) /\ UNCHANGED calls
         ELSE \E f \in ExtractFeaturesOutcomes(p.val[1]) :
           IF f.err # "" THEN LoopRaise(f.err) /\ UNCHANGED calls
           ELSE LET sample == CalibrationSample(f.val, loop.target, loop.ts) IN
                  /\ loop' = [loop EXCEPT
                                !.collected = Append(loop.collected, sample),
                                !.count = loop.count + 1,
                                !.pc = "while"]
                  /\ Callback("on_sample", <<sample>>)
    /\ UNCHANGED <<imports, apps, threads, tracker, gen, now, device, history, pipeline, last>>

\* if collected: self.calibrate(collected)
CalibFitAlways ==
    /\ loop.kind = "calib" /\ loop.pc = "fit"
    /\ Fit(loop.collected)
    /\ IF FitError(loop.collected) # ""
       THEN LoopRaise(ErrCalibrationFailed(FitError(loop.collected)))
       ELSE loop' = [loop EXCEPT !.pc = "return"]
    /\ UNCHANGED <<imports, apps, threads, tracker, gen, now, device, history, stages, calls,
                   last>>
CalibFit ==
    /\ loop.kind = "calib" /\ loop.pc = "fit"
    /\ IF loop.collected # <<>>
       THEN /\ Fit(loop.collected)
            /\ IF FitError(loop.collected) # ""
               THEN LoopRaise(ErrCalibrationFailed(FitError(loop.collected)))
               ELSE loop' = [loop EXCEPT !.pc = "return"]
       ELSE /\ UNCHANGED model
            /\ loop' = [loop EXCEPT !.pc = "return"]
    /\ UNCHANGED <<imports, apps, threads, tracker, gen, now, device, history, stages, calls,
                   last>>

\* The routine comes back to its caller: it returns (the collected samples,
\* for the calibration routine) or the error propagates.  Its generator is
\* dropped, which finishes it.
LoopExit ==
    /\ loop.pc \in {"return", "raise"}
    /\ LET op == IF loop.kind = "infer" THEN "run_inference_loop"
                 ELSE "run_calibration_routine" IN
         last' = IF loop.pc = "raise" THEN Raised(op, loop.err)
                 ELSE ReturnedVal(op, loop.collected)
    /\ gen' = [gen EXCEPT ![loop.g] = GenClosed]
    /\ loop' = NoLoop
    /\ UNCHANGED <<imports, apps, threads, tracker, now, device, history, pipeline, calls>>

(***************************************************************************)
(* The wall clock: time.time() is not monotonic, it may be set either way. *)
(***************************************************************************)
ClockStep ==
    /\ \E t \in 0..MaxTime : t # now /\ now' = t
    /\ UNCHANGED <<imports, apps, threads, tracker, gen, device, history, pipeline, routine,
                   last>>

(***************************************************************************)
(* close() called on other threads.  The interpreter may switch threads    *)
(* between any two statements, so a close() is two steps here: it reads    *)
(* self._cap into its local `cap`, and later it clears the two fields and  *)
(* releases what it read.  Nothing in the class excludes the steps of      *)
(* other calls in between.                                                 *)
(***************************************************************************)
\* The sequence q without its i-th element.
Without(q, i) ==
    [j \in 1..(Len(q) - 1) |-> IF j < i THEN q[j] ELSE q[j + 1]]

\* cap = self._cap
CloseBegin ==
    /\ Len(closing) < MaxClosers
    /\ closing' = Append(closing, cap)
    /\ UNCHANGED <<imports, apps, other, tracker, gen, now, device, history,
                   pipeline, routine, last>>

\* self._is_open = False; self._cap = None; cap.release() if cap is not None
CloseEnd ==
    \E i \in 1..Len(closing) :
      /\ closing' = Without(closing, i)
      /\ CloseClear
      /\ CloseRelease(closing[i])
      /\ UNCHANGED <<imports, apps, other, frame_count, last_frame_ts, recent_fps,
                     gen, now, ncaps, nreads, eof_cap, history, pipeline,
                     routine>>

(***************************************************************************)
(* A routine running while other threads call close().  The advance of     *)
(* the routine's generator is two steps here: the while condition of       *)
(* frames() is evaluated, and later self._cap is read again for            *)
(* self._cap.read(); a close() in between leaves None there, and the       *)
(* attribute lookup raises AttributeError.                                 *)
(***************************************************************************)
\* A generator whose while condition has held and whose read is to come.
GenChecked == "checked"

\* The AttributeError of None.read().
ErrNoneRead == "'NoneType' object has no attribute 'read'"

\* while self._is_open and self._cap is not None
FramesCond(g) ==
    IF ~FramesLoopCond
    THEN /\ gen' = [gen EXCEPT ![g] = GenClosed]
         /\ last' = Stopped(g, "")
         /\ UNCHANGED <<tracker, device, history>>
    ELSE /\ gen' = [gen EXCEPT ![g] = GenChecked]
         /\ UNCHANGED <<tracker, device, history, last>>

\* next(g) up to the while condition of frames().
GenEnter(g) ==
    /\ g \in 1..Len(gen)
    /\ UNCHANGED <<imports, apps, threads, now, pipeline, calls>>
    /\ CASE gen[g] = GenCreated ->
              IF FramesPrecheck # ""
              THEN /\ gen' = [gen EXCEPT ![g] = GenClosed]
                   /\ last' = [Raised("next", FramesPrecheck) EXCEPT !.g = g]
                   /\ UNCHANGED <<tracker, device, history>>
              ELSE FramesCond(g)
         [] gen[g] = GenSuspended -> FramesCond(g)
         [] gen[g] = GenClosed -> GenFinished(g)

\* ok, frame = self._cap.read() and what follows it up to the yield.
GenRead(g) ==
    /\ g \in 1..Len(gen)
    /\ gen[g] = GenChecked
    /\ UNCHANGED <<imports, apps, threads, now, pipeline, calls>>
    /\ IF cap = None
       THEN /\ gen' = [gen EXCEPT ![g] = GenClosed]
            /\ last' = [Raised("next", ErrNoneRead) EXCEPT !.g = g]
            /\ UNCHANGED <<tracker, device, history>>
       ELSE FramesRead(g)

\* Where the routine goes after GenEnter: on to the read, or as AfterNext.
AfterEnter(stopped) ==
    loop' = IF gen'[loop.g] = GenChecked THEN [loop EXCEPT !.pc = "read"]
            ELSE IF last'.out = "stop" THEN [loop EXCEPT !.pc = stopped]
            ELSE [loop EXCEPT !.pc = "raise", !.err = last'.err]

InferEnter ==
    /\ loop.kind = "infer" /\ loop.pc = "next"
    /\ GenEnter(loop.g)
    /\ AfterEnter("return")

CalibEnter ==
    /\ loop.kind = "calib" /\ loop.pc = "while"
    /\ IF now - loop.start < loop.limit /\ loop.count < loop.max
       THEN /\ GenEnter(loop.g)
            /\ AfterEnter("target")
       ELSE /\ loop' = [loop EXCEPT !.pc = "target"]
            /\ UNCHANGED <<imports, apps, threads, tracker, gen, now, device,
                           history, pipeline, calls, last>>

LoopRead ==
    /\ loop.pc = "read"
    /\ GenRead(loop.g)
    /\ AfterNext(IF loop.kind = "infer" THEN "return" ELSE "target")

(***************************************************************************)
(* run_inference_loop() called by a second thread with its default         *)
(* arguments, on a tracker with the default stages: the body of an         *)
(* iteration then changes nothing, so the call is its entry check, the     *)
(* advances of its own generator, and its end when the generator has       *)
(* finished.                                                               *)
(***************************************************************************)
OtherRun ==
    /\ other = NoOther
    /\ AppsFresh
    /\ IF ~is_open
       THEN /\ other' = [NoOther EXCEPT !.pc = "raise", !.err = ErrInferNotOpen]
            /\ UNCHANGED gen
       ELSE /\ Len(gen) < MaxGens
            /\ gen' = Append(gen, GenCreated)
            /\ other' = [NoOther EXCEPT !.pc = "next", !.g = Len(gen) + 1]
    /\ UNCHANGED <<imports, apps, closing, tracker, now, device, history, pipeline,
                   routine, last>>

\* for ts, frame in self.frames(): one advance.
OtherNext ==
    /\ other.pc = "next"
    /\ gen[other.g] # GenClosed
    /\ GenNext(other.g)

\* The call comes back: its generator has finished, or its check failed.
OtherExit ==
    /\ \/ other.pc = "raise"
       \/ other.pc = "next" /\ gen[other.g] = GenClosed
    /\ other' = NoOther
    /\ UNCHANGED <<imports, apps, closing, tracker, gen, now, device, history,
                   pipeline, routine, last>>

Next ==
    \/ Open
    \/ Close
    \/ Frames
    \/ \E g \in 1..MaxGens : GenNext(g)
    \/ ClockStep

Spec == Init /\ [][Next]_vars

(***************************************************************************)
(* The operations that touch no frame (get_fps, the three stages,          *)
(* calibrate, the setters), called in any order on a tracker that the      *)
(* caller opens and closes.  The tracker is either new or has already      *)
(* yielded two frames one second apart, so that its window holds a sample  *)
(* when it is closed.                                                      *)
(***************************************************************************)
InitOps ==
    \/ Init
    \/ /\ cv2_loaded = TRUE
       /\ np_loaded = TRUE
       /\ cap = 1
       /\ is_open = TRUE
       /\ frame_count = 2
       /\ last_frame_ts = 1
       /\ recent_fps = <<Frac(1, 1)>>
       /\ gen = <<GenSuspended>>
       /\ now = 1
       /\ ncaps = 1
       /\ releases = <<>>
       /\ nreads = 2
       /\ eof_cap = None
       /\ yielded = 2
       /\ appended = 1
       /\ preprocess_fn = "None"
       /\ feature_extractor = "None"
       /\ gaze_estimator = "None"
       /\ model_W = Unset
       /\ model_b = Unset
       /\ loop = NoLoop
       /\ calls = <<>>
       /\ last = Yielded(1, 1, 2)
       /\ closing = <<>>
       /\ other = NoOther
       /\ AppsFresh

NextOps ==
    \/ Open
    \/ Close
    \/ GetFps
    \/ ProcessFrame
    \/ ExtractFeatures
    \/ EstimateGaze
    \/ Calibrate
    \/ SetPreprocess
    \/ SetFeatureExtractor
    \/ SetGazeEstimator

SpecOps == InitOps /\ [][NextOps]_vars

(***************************************************************************)
(* The frame sequences and the two routines, called by one caller: it      *)
(* makes its next call when the previous one has come back.  close() may   *)
(* be called at any time, also while a routine is in progress, and the     *)
(* clock moves at any time.                                                *)
(***************************************************************************)
Idle == loop = NoLoop

NextLoops ==
    \/ Idle /\ Open
    \/ Close
    \/ Idle /\ Frames
    \/ Idle /\ \E g \in 1..MaxGens : GenNext(g)
    \/ ClockStep
    \/ RunInferenceLoop
    \/ InferNext
    \/ InferBody
    \/ RunCalibrationRoutine
    \/ CalibTarget
    \/ CalibWhile
    \/ CalibBody
    \/ CalibFit
    \/ LoopExit

SpecLoops == Init /\ [][NextLoops]_vars

(***************************************************************************)
(* run_calibration_routine called by a single caller, which makes its next *)
(* call when the previous one has come back, on a tracker constructed with *)
(* or without a feature extractor of the caller; the extractor may fail    *)
(* and may return vectors of different lengths.                            *)
(***************************************************************************)
InitCalib ==
    /\ cv2_loaded \in BOOLEAN
    /\ np_loaded \in BOOLEAN
    /\ Fresh
    /\ gen = <<>>
    /\ now \in 0..MaxTime
    /\ ncaps = 0
    /\ releases = <<>>
    /\ nreads = 0
    /\ eof_cap = None
    /\ yielded = 0
    /\ appended = 0
    /\ preprocess_fn = "None"
    /\ feature_extractor \in {"None", "fn"}
    /\ gaze_estimator = "None"
    /\ model_W = Unset
    /\ model_b = Unset
    /\ loop = NoLoop
    /\ calls = <<>>
    /\ last = Returned("init")
    /\ closing = <<>>
    /\ other = NoOther
    /\ AppsFresh

NextCalib ==
    \/ Idle /\ Open
    \/ Idle /\ Close
    \/ ClockStep
    \/ RunCalibrationRoutine
    \/ CalibTarget
    \/ CalibWhile
    \/ CalibBody
    \/ CalibFit
    \/ LoopExit

SpecCalib == InitCalib /\ [][NextCalib]_vars

(***************************************************************************)
(* The two routines called one after the other by a single caller, on a    *)
(* tracker constructed with or without a gaze estimator of the caller,     *)
(* which may fail.                                                         *)
(***************************************************************************)
InitInfer ==
    /\ cv2_loaded \in BOOLEAN
    /\ np_loaded \in BOOLEAN
    /\ Fresh
    /\ gen = <<>>
    /\ now \in 0..MaxTime
    /\ ncaps = 0
    /\ releases = <<>>
    /\ nreads = 0
    /\ eof_cap = None
    /\ yielded = 0
    /\ appended = 0
    /\ preprocess_fn = "None"
    /\ feature_extractor = "None"
    /\ gaze_estimator \in {"None", "fn"}
    /\ model_W = Unset
    /\ model_b = Unset
    /\ loop = NoLoop
    /\ calls = <<>>
    /\ last = Returned("init")
    /\ closing = <<>>
    /\ other = NoOther
    /\ AppsFresh

NextInfer ==
    \/ Idle /\ Open
    \/ Idle /\ Close
    \/ ClockStep
    \/ RunCalibrationRoutine
    \/ CalibTarget
    \/ CalibWhile
    \/ CalibBody
    \/ CalibFit
    \/ RunInferenceLoop
    \/ InferNext
    \/ InferBody
    \/ LoopExit

SpecInfer == InitInfer /\ [][NextInfer]_vars

(***************************************************************************)
(* open() and close() called on a new tracker from several threads: the    *)
(* calls of one thread are whole steps, the close() calls of the others    *)
(* are interleaved with them.                                              *)
(***************************************************************************)
NextClose ==
    \/ Open
    \/ Close
    \/ CloseBegin
    \/ CloseEnd
    \/ ClockStep

SpecClose == Init /\ [][NextClose]_vars

(***************************************************************************)
(* One thread opens the tracker and runs the routines, one call after the  *)
(* other, while another thread calls close() at any time, one call after   *)
(* the other.  The clock stands still.                                     *)
(***************************************************************************)
NextCancel ==
    \/ Idle /\ Open
    \/ closing = <<>> /\ CloseBegin
    \/ CloseEnd
    \/ RunInferenceLoop
    \/ InferEnter
    \/ InferBody
    \/ RunCalibrationRoutine
    \/ CalibTarget
    \/ CalibEnter
    \/ CalibBody
    \/ CalibFit
    \/ LoopRead
    \/ LoopExit

SpecCancel == Init /\ [][NextCancel]_vars

(***************************************************************************)
(* One thread opens the tracker and calls run_calibration_routine, a       *)
(* second thread calls run_inference_loop() on the same tracker; nobody    *)
(* closes it.  The clock stands still.                                     *)
(***************************************************************************)
NextConsumers ==
    \/ Idle /\ Open
    \/ RunCalibrationRoutine
    \/ CalibTarget
    \/ CalibWhile
    \/ CalibBody
    \/ CalibFit
    \/ LoopExit
    \/ OtherRun
    \/ OtherNext
    \/ OtherExit

SpecConsumers == Init /\ [][NextConsumers]_vars

(***************************************************************************)
(* run_calibration_routine called by a single caller with target lists of  *)
(* either sort, on a tracker with the default stages.                      *)
(***************************************************************************)
NextTargets ==
    \/ Idle /\ Open
    \/ ClockStep
    \/ RunCalibrationRoutine
    \/ RunCalibrationMalformed
    \/ CalibTarget
    \/ CalibWhile
    \/ CalibBody
    \/ CalibFit
    \/ LoopExit

SpecTargets == Init /\ [][NextTargets]_vars

(***************************************************************************)
(* A caller that requests frame sequences during the first session only    *)
(* (before any handle has been released) and goes on advancing them while  *)
(* it closes and re-opens the tracker.                                     *)
(***************************************************************************)
NextReopen ==
    \/ Open
    \/ Close
    \/ releases = <<>> /\ Frames
    \/ \E g \in 1..MaxGens : GenNext(g)
    \/ ClockStep

SpecReopen == Init /\ [][NextReopen]_vars

(***************************************************************************)
(* run_calibration_routine called by a single caller on a device whose     *)
(* reads may fail at any time, with or without a feature extractor of the  *)
(* caller's, and with caps that let the frames run out under a target.     *)
(***************************************************************************)
NextExhaust ==
    \/ Idle /\ Open
    \/ ClockStep
    \/ RunCalibrationLong
    \/ CalibTarget
    \/ CalibWhile
    \/ CalibBody
    \/ CalibFit
    \/ LoopExit

SpecExhaust == InitCalib /\ [][NextExhaust]_vars

(***************************************************************************)
(* A tracker that has been open for a while: its generator has yielded n   *)
(* frames, the first one two seconds after open() and the others one       *)
(* second apart, so the FPS window holds n samples, n the capacity or one  *)
(* less.  The next reads are the ones that fill the window and evict.      *)
(***************************************************************************)
InitFps ==
    /\ cv2_loaded = TRUE
    /\ np_loaded = TRUE
    /\ cap = 1
    /\ is_open = TRUE
    /\ \E n \in (FpsWindowLen - 1)..FpsWindowLen :
         /\ frame_count = n
         /\ yielded = n
         /\ appended = n
         /\ recent_fps = [i \in 1..n |-> IF i = 1 THEN Frac(1, 2) ELSE Frac(1, 1)]
    /\ last_frame_ts \in 0..MaxTime
    /\ now = last_frame_ts
    /\ gen = <<GenSuspended>>
    /\ ncaps = 1
    /\ releases = <<>>
    /\ nreads = 0
    /\ eof_cap = None
    /\ preprocess_fn = "None"
    /\ feature_extractor = "None"
    /\ gaze_estimator = "None"
    /\ model_W = Unset
    /\ model_b = Unset
    /\ loop = NoLoop
    /\ calls = <<>>
    /\ last = Yielded(1, now, frame_count)
    /\ closing = <<>>
    /\ other = NoOther
    /\ AppsFresh

SpecFps == InitFps /\ [][Next]_vars

(***************************************************************************)
(* get_fps() on a tracker whose window holds any samples in any order: the *)
(* tracker is in a session that has yielded the frames behind the samples, *)
(* or has been closed after it.                                            *)
(***************************************************************************)
RateInputs == {Frac(28, 1), Frac(30, 1), Frac(32, 1)}
WindowInputs == UNION {[1..n -> RateInputs] : n \in 0..MaxWindow}

InitMedian ==
    /\ cv2_loaded = TRUE
    /\ np_loaded = TRUE
    /\ recent_fps \in WindowInputs
    /\ frame_count = Len(recent_fps)
    /\ yielded = Len(recent_fps)
    /\ appended = Len(recent_fps)
    /\ is_open \in BOOLEAN
    /\ cap = IF is_open THEN 1 ELSE None
    /\ releases = IF is_open THEN <<>> ELSE <<1>>
    /\ now \in 0..MaxTime
    /\ last_frame_ts = now
    /\ gen = <<GenSuspended>>
    /\ ncaps = 1
    /\ nreads = 0
    /\ eof_cap = None
    /\ preprocess_fn = "None"
    /\ feature_extractor = "None"
    /\ gaze_estimator = "None"
    /\ model_W = Unset
    /\ model_b = Unset
    /\ loop = NoLoop
    /\ calls = <<>>
    /\ last = IF is_open THEN Returned("open") ELSE Returned("close")
    /\ closing = <<>>
    /\ other = NoOther
    /\ AppsFresh

NextMedian == GetFps

SpecMedian == InitMedian /\ [][NextMedian]_vars

(***************************************************************************)
(* The calibration model of a new tracker under any sequence of direct     *)
(* fit and predict calls.                                                  *)
(***************************************************************************)
NextModel ==
    \/ \E samples \in FitInputs : ModelFit(samples)
    \/ \E features \in PredictInputs : ModelPredict(features)

SpecModel == Init /\ [][NextModel]_vars

(***************************************************************************)
(* run_inference_loop on a frame source that goes on delivering frames,    *)
(* under a clock that moves forward by one with each frame: Tick is the    *)
(* time that passes between the read of a frame and the end of its         *)
(* iteration.  The caller is sequential.  A read may still fail, but       *)
(* nothing makes it do so: the thread of the loop keeps running (weak      *)
(* fairness on its steps that need no failure) and time keeps passing.     *)
(* The clock of the model stops at MaxTime and its device delivers         *)
(* MaxReads frames, so a deadline is given only where it falls within the  *)
(* clock's range and the frames read up to it are left.                    *)
(***************************************************************************)
Tick ==
    /\ loop.kind = "infer" /\ loop.pc = "body"
    /\ now = loop.ts /\ now < MaxTime
    /\ now' = now + 1
    /\ UNCHANGED <<imports, apps, threads, tracker, gen, device, history, pipeline, routine,
                   last>>

TimedRun ==
    /\ RunInferenceLoop
    /\ loop'.limit # NoLimit =>
         /\ now + loop'.limit <= MaxTime
         /\ nreads + (IF loop'.limit = 0 THEN 1 ELSE loop'.limit) <= MaxReads

TimedBody ==
    /\ now > loop.ts \/ now = MaxTime
    /\ InferBody

\* next() on the loop's generator, its read succeeding if it makes one.
NextFrame ==
    /\ InferNext
    /\ last'.dev # "read_failed"

\* next() on the loop's generator, its read failing.
NextFails ==
    /\ InferNext
    /\ last'.dev = "read_failed"

NextDeadline ==
    \/ Idle /\ Open
    \/ Idle /\ Close
    \/ TimedRun
    \/ NextFrame
    \/ NextFails
    \/ Tick
    \/ TimedBody
    \/ LoopExit

SpecDeadline ==
    /\ Init
    /\ [][NextDeadline]_vars
    /\ WF_vars(NextFrame)
    /\ WF_vars(Tick)
    /\ WF_vars(TimedBody)
    /\ WF_vars(LoopExit)

(***************************************************************************)
(* UserProfile.add_favorite_phrase and remove_favorite_phrase               *)
(* (src/user_profile.py).  The timestamp last_updated they refresh is not  *)
(* part of the model.                                                      *)
(***************************************************************************)
\* The whitespace str.strip() removes (the space stands for all of it).
Whitespace == {" "}

RECURSIVE LStrip(_)
LStrip(t) ==
    IF t # <<>> /\ Head(t) \in Whitespace THEN LStrip(Tail(t)) ELSE t
RECURSIVE RStrip(_)
RStrip(t) ==
    IF t # <<>> /\ t[Len(t)] \in Whitespace
    THEN RStrip(SubSeq(t, 1, Len(t) - 1)) ELSE t
\* str.strip()
Strip(t) == RStrip(LStrip(t))

\* The arguments the two methods are called with: strings over a small
\* alphabet, None and the integer 5.
Chars == {" ", "a", "b"}
TextInputs == UNION {[1..n -> Chars] : n \in 0..MaxPhraseLen}
PhraseInputs ==
    {[type |-> "str", text |-> t] : t \in TextInputs}
      \cup {[type |-> "NoneType", text |-> <<>>], [type |-> "int", text |-> <<>>]}

\* bool(p): a string is true unless empty, None is false, 5 is true.
Truthy(p) == IF p.type = "str" THEN p.text # <<>> ELSE p.type = "int"

\* p in self.favorite_phrases, for a string and for any argument.
InList(t, q) == \E i \in 1..Len(q) : q[i] = t
PhraseInList(p, q) == p.type = "str" /\ InList(p.text, q)

\* list.remove(t): the first occurrence is removed.
RemoveFirst(q, t) ==
    LET i == CHOOSE j \in 1..Len(q) :
               q[j] = t /\ \A k \in 1..(j - 1) : q[k] # t
    IN  SubSeq(q, 1, i - 1) \o SubSeq(q, i + 1, Len(q))

\* add_favorite_phrase(p): the ValueError it raises on an empty or
\* non-string argument is caught inside and turned into False.
AddFavoritePhrase ==
    /\ \E p \in PhraseInputs :
         IF ~Truthy(p) \/ p.type # "str"
         THEN /\ last' = ReturnedVal("add_favorite_phrase", <<FALSE, p>>)
              /\ UNCHANGED favorite_phrases
         ELSE LET phrase == Strip(p.text) IN
                IF InList(phrase, favorite_phrases)
                THEN /\ last' = ReturnedVal("add_favorite_phrase", <<FALSE, p>>)
                     /\ UNCHANGED favorite_phrases
                ELSE /\ Len(favorite_phrases) < MaxPhrases
                     /\ favorite_phrases' = Append(favorite_phrases, phrase)
                     /\ last' = ReturnedVal("add_favorite_phrase", <<TRUE, p>>)
    /\ UNCHANGED <<imports, threads, suggester, tracker, gen, now, device,
                   history, pipeline, routine>>

\* remove_favorite_phrase(p): the argument is compared as given.
RemoveFavoritePhrase ==
    /\ \E p \in PhraseInputs :
         IF PhraseInList(p, favorite_phrases)
         THEN /\ favorite_phrases' = RemoveFirst(favorite_phrases, p.text)
              /\ last' = ReturnedVal("remove_favorite_phrase", <<TRUE, p>>)
         ELSE /\ UNCHANGED favorite_phrases
              /\ last' = ReturnedVal("remove_favorite_phrase", <<FALSE, p>>)
    /\ UNCHANGED <<imports, threads, suggester, tracker, gen, now, device,
                   history, pipeline, routine>>

NextProfile ==
    \/ AddFavoritePhrase
    \/ RemoveFavoritePhrase

\* A new UserProfile and the calls made on it.
SpecProfile == Init /\ [][NextProfile]_vars

(***************************************************************************)
(* SuggestionGenerator.suggest_words (src/ai_suggestion.py), on a          *)
(* generator configured with or without caching and with fallback words    *)
(* of the caller's choice.                                                 *)
(***************************************************************************)
\* SuggestionGenerator.MASK_TOKEN
MASK_TOKEN == <<"[", "M", "A", "S", "K", "]">>

\* sub in t, for strings.
Contains(sub, t) ==
    \E i \in 1..(Len(t) - Len(sub) + 1) : SubSeq(t, i, i + Len(sub) - 1) = sub

\* q[:n] for n >= 0.
Take(q, n) == SubSeq(q, 1, IF n < Len(q) THEN n ELSE Len(q))

\* The arguments: an empty context, one without and one with the mask
\* token; a limit, 0 standing for None (and for 0, which the code treats
\* alike).
ContextInputs == {<<>>, <<"a">>, <<"a", " ">> \o MASK_TOKEN}
LimitInputs == 0..MaxLimit
\* The fallback words of the configuration: the shipped ones, or a tuple
\* in which a word occurs twice.
FallbackInputs == {DefaultFallbackWords, <<Yes, Yes, No>>}

\* limit or self.config.max_word_suggestions
EffLimit(limit) == IF limit # 0 THEN limit ELSE MaxWordSuggestions

\* What the fill-mask stage can do: no pipeline (transformers missing or
\* the model not loadable), an exception, or a list of candidates given by
\* their token_str.  An exception while the candidates are being read
\* leaves the ones read so far, which is the outcome of a shorter list.
TokenInputs == {<<"a">>, <<" ", "a">>, <<"b">>, <<" ">>}
NoPipe == [kind |-> "none", items |-> <<>>]
FillMaskOutcomes ==
    {NoPipe, [kind |-> "raise", items |-> <<>>]}
      \cup {[kind |-> "results", items |-> r] :
              r \in UNION {[1..n -> TokenInputs] : n \in 0..MaxResults}}

\* The loop over results[:limit * 2]: the stripped, non-empty token
\* strings.
NonEmpty(t) == t # <<>>
Candidates(items, lim) ==
    LET firsts == Take(items, lim * 2) IN
      SelectSeq([i \in 1..Len(firsts) |-> Strip(firsts[i])], NonEmpty)

\* Deduplicate while preserving order, then truncate: the loop of lines
\* 171-177, entered with `unique` so far and the suggestions left.
RECURSIVE Dedupe(_, _, _)
Dedupe(suggestions, unique, lim) ==
    IF suggestions = <<>> THEN unique
    ELSE LET s == Head(suggestions)
             u == IF InList(s, unique) THEN unique ELSE Append(unique, s)
         IN  IF Len(u) >= lim THEN u ELSE Dedupe(Tail(suggestions), u, lim)

\* self._cache_word[key] = value
Put(dict, key, value) ==
    [k \in DOMAIN dict \cup {key} |-> IF k = key THEN value ELSE dict[k]]

\* What a suggest_words(context, limit) call returned, and whether the
\* model was consulted or the cache answered (dev).
Suggested(words, context, limit, how) ==
    [ReturnedVal("suggest_words", <<words, context, limit>>) EXCEPT !.dev = how]

SuggestWords ==
    /\ \E context \in ContextInputs, limit \in LimitInputs :
         LET lim == EffLimit(limit)
             key == <<context, lim>>
         IN  IF context = <<>>
             THEN /\ last' = Suggested(Take(fallback_common_words, lim),
                                       context, limit, "")
                  /\ UNCHANGED cache_word
             ELSE IF enable_cache /\ key \in DOMAIN cache_word
             THEN /\ last' = Suggested(cache_word[key], context, limit, "cached")
                  /\ UNCHANGED cache_word
             ELSE \E o \in IF Contains(MASK_TOKEN, context)
                            THEN FillMaskOutcomes ELSE {NoPipe} :
                    LET found == Candidates(o.items, lim)
                        unique == Dedupe(IF found = <<>>
                                         THEN fallback_common_words ELSE found,
                                         <<>>, lim)
                    IN  /\ cache_word' = IF enable_cache
                                         THEN Put(cache_word, key, unique)
                                         ELSE cache_word
                        /\ last' = Suggested(unique, context, limit,
                                             IF o.kind = "none" THEN ""
                                             ELSE "model")
    /\ UNCHANGED <<imports, threads, favorite_phrases, enable_cache,
                   fallback_common_words, tracker, gen, now, device, history,
                   pipeline, routine>>

InitSuggest ==
    /\ TrackerNew
    /\ cv2_loaded /\ np_loaded /\ now = 0
    /\ favorite_phrases = <<>>
    /\ cache_word = EmptyDict
    /\ enable_cache \in BOOLEAN
    /\ fallback_common_words \in FallbackInputs

NextSuggest == SuggestWords

SpecSuggest == InitSuggest /\ [][NextSuggest]_vars

(***************************************************************************)
(* Properties of the lifecycle and of the frame sequence.                  *)
(***************************************************************************)

\* C1: the tracker is created Closed, a step makes it Open only if it is an
\* open() call that returned normally, and every close() call leaves it
\* Closed.
C1_OpenOnlyBySuccessfulOpen ==
    /\ ~is_open
    /\ [][/\ (~is_open /\ is_open') => (Open /\ last'.out = "return")
          /\ Close => ~is_open']_vars

\* C1 witness: the tracker is Open again after a close, by a second
\* successful open().
C1_Witness ==
    /\ is_open
    /\ last.op = "open" /\ last.out = "return"
    /\ releases = <<1>>
    /\ cap = 2

\* C2: close() returns normally from every state, also when release()
\* raises; it leaves the tracker Closed with no handle, having released the
\* handle it held once; on a tracker that is Closed with no handle it
\* changes nothing and releases nothing.
C2_CloseIdempotentNoThrow ==
    [][Close =>
         /\ last'.op = "close" /\ last'.out = "return"
         /\ ~is_open' /\ cap' = None
         /\ cap # None => releases' = Append(releases, cap)
         /\ cap = None => UNCHANGED <<tracker, device>>]_vars

\* C2 witness: a close() whose release() raised has returned normally and
\* left the tracker Closed.
C2_Witness ==
    /\ last.op = "close" /\ last.out = "return" /\ last.dev = "release_failed"
    /\ ~is_open /\ cap = None
    /\ releases = <<1>>

\* C3: open() on an Open tracker returns normally, constructs no
\* VideoCapture and leaves the handle, the frame counter, the last-frame
\* timestamp and the FPS window as they were.
C3_OpenIdempotent ==
    [][(Open /\ is_open) =>
         /\ last'.out = "return"
         /\ UNCHANGED <<cap, is_open, frame_count, last_frame_ts, recent_fps,
                        ncaps>>]_vars

\* C3 witness: open() has returned on a tracker that keeps the frames it
\* counted and the samples it recorded before the call.
C3_Witness ==
    /\ last.op = "open" /\ last.out = "return"
    /\ is_open
    /\ frame_count > 0
    /\ recent_fps # <<>>

\* C4: an open() whose VideoCapture could not be created, or does not report
\* itself opened, raises an error of the DeviceUnavailable kind and leaves
\* the tracker Closed with no handle, its frame counter and FPS window
\* unchanged.
C4_OpenFailureLeavesClosed ==
    [][(Open /\ last'.dev \in {"throws", "closed"}) =>
         /\ last'.out = "raise"
         /\ last'.err \in DeviceUnavailable
         /\ ~is_open' /\ cap' = None
         /\ UNCHANGED <<frame_count, last_frame_ts, recent_fps>>]_vars

\* C4 witness: a re-open failed on a VideoCapture that is not opened, after
\* a session that read frames; the tracker is Closed and keeps its counter.
C4_Witness ==
    /\ last.op = "open" /\ last.dev = "closed" /\ last.out = "raise"
    /\ ~is_open /\ cap = None
    /\ frame_count > 0

\* C5: on a Closed tracker a call of frames(), run_inference_loop or
\* run_calibration_routine raises an error of the StreamNotOpen kind at the
\* call, reads no frame, calls no callback and leaves the calibration model
\* as it was.
C5_ClosedRequestFails ==
    [][(~is_open /\ (Frames \/ RunInferenceLoop \/ RunCalibrationRoutine)) =>
         /\ last'.out = "raise"
         /\ last'.err \in StreamNotOpen
         /\ nreads' = nreads
         /\ calls' = calls
         /\ model' = model]_vars

\* The calls that touch no frame: get_fps, the stages, calibrate, the setters.
PipelineOps ==
    {"get_fps", "process_frame", "extract_features", "estimate_gaze",
     "calibrate", "set_preprocess", "set_feature_extractor",
     "set_gaze_estimator"}

\* The errors the stages and calibrate() raise.
PipelineErrors ==
    {ErrPreprocessFailed, ErrFeatureFailed, ErrNpRequired, ErrGazeFailed,
     ErrCalibrationFailed(ErrNoSamples), ErrCalibrationFailed(ErrInconsistentDim)}

\* C6 as stated: on a Closed tracker get_fps, calibrate, process_frame,
\* extract_features, estimate_gaze and the setters raise an error of the
\* StreamNotOpen kind.
C6_PipelineCallsRequireOpen ==
    [][(~is_open /\ last'.op \in PipelineOps) =>
         /\ last'.out = "raise"
         /\ last'.err \in StreamNotOpen]_vars

\* C6, amended: get_fps, calibrate, process_frame, extract_features,
\* estimate_gaze and the setters do not require an Open tracker.  Called on
\* a Closed tracker they never raise StreamNotOpen and leave the tracker as
\* it was: get_fps returns the median of the window kept from the last
\* session, the setters return, and the stages and calibrate return or raise
\* their own errors only.
C6_PipelineCallsIgnoreState ==
    [][(~is_open /\ last'.op \in PipelineOps) =>
         /\ last'.err \notin StreamNotOpen
         /\ UNCHANGED tracker
         /\ last'.op = "get_fps" =>
              last'.out = "return" /\ last'.val = FpsOf(recent_fps)
         /\ last'.op \in {"set_preprocess", "set_feature_extractor",
                          "set_gaze_estimator"} => last'.out = "return"
         /\ last'.out = "raise" => last'.err \in PipelineErrors]_vars

\* C6 witness: get_fps() has returned 1.0, the median of the window a
\* Closed tracker kept from its session.
C6_Witness ==
    /\ ~is_open /\ cap = None
    /\ recent_fps # <<>>
    /\ last = ReturnedVal("get_fps", Frac(1, 1))

\* C7: the advance whose read fails ends the sequence with StopIteration,
\* not an error; it leaves the frame counter, the last-frame timestamp and
\* the FPS window unchanged and yields nothing.
C7_ReadFailureEndsSequence ==
    [][\A g \in 1..MaxGens :
         (GenNext(g) /\ last'.dev = "read_failed") =>
           /\ last'.out = "stop"
           /\ gen'[g] = GenClosed
           /\ UNCHANGED <<frame_count, last_frame_ts, recent_fps, yielded,
                          nreads>>]_vars

\* C7 witness: a sequence that had yielded a frame has ended on a failed
\* read.
C7_Witness ==
    /\ last.op = "next" /\ last.dev = "read_failed" /\ last.out = "stop"
    /\ gen[last.g] = GenClosed
    /\ frame_count > 0

\* Some sequence has ended on a failed read and the tracker still holds the
\* handle it held then: it has not been closed and opened again since.
Exhausted == cap # None /\ eof_cap = cap

C9_ReadAdvancesCounter ==
    /\ [](frame_count = yielded /\ appended <= frame_count)
    /\ [][nreads' # nreads =>
            LET dt == now - last_frame_ts IN
              /\ nreads' = nreads + 1
              /\ frame_count' = frame_count + 1
              /\ yielded' = yielded + 1
              /\ last'.out = "yield"
              /\ dt > 0 =>
                   /\ appended' = appended + 1
                   /\ recent_fps'[Len(recent_fps')] = <<1, dt>>
                   /\ Len(recent_fps) < 60 =>
                        recent_fps' = Append(recent_fps, <<1, dt>>)
              /\ dt <= 0 => UNCHANGED <<recent_fps, appended>>]_vars

\* C9 witness: two frames were read since open, one of them with a
\* non-positive delta, so that a single sample was appended.
C9_Witness ==
    /\ is_open
    /\ frame_count = 2 /\ yielded = 2
    /\ appended = 1 /\ Len(recent_fps) = 1

\* C10: the FPS window never holds more than 60 samples; appending to a
\* full window drops its oldest sample; a step from Closed to Open leaves
\* the window empty and the frame counter at 0.
C10_WindowBoundedAndReset ==
    /\ [](Len(recent_fps) <= 60)
    /\ [][(Len(recent_fps) = 60 /\ nreads' # nreads
                                 /\ now - last_frame_ts > 0) =>
            /\ Len(recent_fps') = 60
            /\ \A i \in 1..59 : recent_fps'[i] = recent_fps[i + 1]
            /\ recent_fps'[60] = <<1, now - last_frame_ts>>]_vars
    /\ [][(~is_open /\ is_open') =>
            (recent_fps' = <<>> /\ frame_count' = 0)]_vars

\* C10 witness: the window is full and the sample that was its oldest, the
\* only one of rate 1/2, has been evicted by a later read.
C10_Witness ==
    /\ Len(recent_fps) = 60
    /\ \A i \in 1..60 : recent_fps[i] = <<1, 1>>
    /\ frame_count > 60
    /\ is_open /\ cap = 1

\* The k-th smallest sample of the window q, found by counting and not by
\* sorting.
KthSmallest(q, k) ==
    CHOOSE x \in {q[i] : i \in 1..Len(q)} :
      /\ Cardinality({i \in 1..Len(q) : ~FracLeq(x, q[i])}) < k
      /\ Cardinality({i \in 1..Len(q) : FracLeq(q[i], x)}) >= k

\* The median of the window q, 0 for the empty window.
MedianOf(q) ==
    LET n == Len(q) IN
      IF n = 0 THEN <<0, 1>>
      ELSE IF n % 2 = 1 THEN KthSmallest(q, n \div 2 + 1)
      ELSE FracHalf(FracAdd(KthSmallest(q, n \div 2),
                            KthSmallest(q, n \div 2 + 1)))

\* The windows holding the samples of q in another order.
Reorderings(q) ==
    {[i \in 1..Len(q) |-> q[p[i]]] : p \in Permutations(1..Len(q))}

\* C11: get_fps() returns 0.0 for the empty window and otherwise the median
\* of the samples in the window (the mean of the two middle ones for an even
\* count), the same for every order of the samples; [28, 30, 32] gives 30.
\* It changes nothing of the tracker.
C11_GetFpsIsMedian ==
    [][GetFps =>
         /\ last'.op = "get_fps" /\ last'.out = "return"
         /\ last'.val = MedianOf(recent_fps)
         /\ \A q \in Reorderings(recent_fps) : FpsOf(q) = last'.val
         /\ recent_fps = <<>> => last'.val = <<0, 1>>
         /\ recent_fps = <<<<28, 1>>, <<30, 1>>, <<32, 1>>>> =>
              last'.val = <<30, 1>>
         /\ UNCHANGED <<imports, apps, threads, tracker, gen, now, device, history, pipeline,
                        routine>>]_vars

\* C11 witness: get_fps() has returned 30 for the window [32, 28, 30].
C11_Witness ==
    /\ recent_fps = <<<<32, 1>>, <<28, 1>>, <<30, 1>>>>
    /\ last = ReturnedVal("get_fps", <<30, 1>>)

\* The error kinds of fit(), told apart by their messages; calibrate() passes
\* them on inside its own message.
NoCalibrationSamples == {ErrNoSamples, ErrCalibrationFailed(ErrNoSamples)}
InconsistentFeatureDimension ==
    {ErrInconsistentDim, ErrCalibrationFailed(ErrInconsistentDim)}

\* predict() returns the (NaN, NaN) pair for every input.
PredictsNaN == \A f \in PredictInputs : Predict(f) = <<NaN, NaN>>

\* C12: as long as no fit() has succeeded, whatever fit() calls have failed,
\* predict() returns (NaN, NaN) for every input and does not raise: the new
\* model predicts NaN, and every step other than a fit() that returns keeps
\* it so.
C12_UnfittedPredictsNaN ==
    /\ PredictsNaN
    /\ [][(PredictsNaN /\ ~(last'.op = "fit" /\ last'.out = "return")) =>
            /\ PredictsNaN'
            /\ last'.op = "predict" =>
                 last'.out = "return" /\ last'.val = <<NaN, NaN>>]_vars

\* C12 witness: predict() has returned (NaN, NaN) on a model that is still
\* unfitted.
C12_Witness ==
    /\ model_W = Unset /\ model_b = Unset
    /\ last = ReturnedVal("predict", <<NaN, NaN>>)

\* C13: fit([]) raises an error of the NoCalibrationSamples kind and leaves
\* W and b as they were, on an unfitted and on a fitted model.
C13_EmptyFitFails ==
    [][ModelFit(<<>>) =>
         /\ last'.out = "raise"
         /\ last'.err \in NoCalibrationSamples
         /\ model_W' = model_W /\ model_b' = model_b]_vars

\* C13 witness: fit([]) has failed on a fitted model.
C13_Witness ==
    /\ last = Raised("fit", ErrNoSamples)
    /\ model_W # Unset /\ model_b # Unset

\* Some sample's feature vector is not as long as the first sample's.
Inconsistent(samples) ==
    \E i \in 1..Len(samples) :
      Len(samples[i].features) # Len(samples[1].features)

\* C14: fit() on a list in which some sample's feature vector is not as long
\* as the first sample's (lengths [2, 2, 3], say) raises an error of the
\* InconsistentFeatureDimension kind, which is not the NoCalibrationSamples
\* kind, and leaves W and b as they were.
C14_InconsistentFitFails ==
    /\ InconsistentFeatureDimension \cap NoCalibrationSamples = {}
    /\ [][\A s \in FitInputs : (Inconsistent(s) /\ ModelFit(s)) =>
            /\ last'.out = "raise"
            /\ last'.err \in InconsistentFeatureDimension
            /\ model_W' = model_W /\ model_b' = model_b]_vars

\* C14 witness: fit() has failed on inconsistent samples, on a fitted model.
C14_Witness ==
    /\ last = Raised("fit", ErrInconsistentDim)
    /\ model_W # Unset /\ model_b # Unset

\* The mean of coordinate k of the targets of samples.
RECURSIVE TargetTotal(_, _, _)
TargetTotal(samples, k, n) ==
    IF n = 0 THEN 0 ELSE TargetTotal(samples, k, n - 1) + samples[n].target_xy[k]
TargetMean(samples, k) == Frac(TargetTotal(samples, k, Len(samples)), Len(samples))

\* fit(samples) passes both checks.
Fittable(samples) == samples # <<>> /\ ~Inconsistent(samples)

\* C15: a fit() on a non-empty list of samples of one feature length returns,
\* and from then on predict() returns (mean target x, mean target y) of these
\* samples for every input, whatever its content or length; targets (0, 0)
\* and (1, 1) give (0.5, 0.5).
C15_FittedPredictsMean ==
    [][\A s \in FitInputs : (Fittable(s) /\ ModelFit(s)) =>
         /\ last'.out = "return"
         /\ \A f \in PredictInputs :
              Predict(f)' = <<TargetMean(s, 1), TargetMean(s, 2)>>
         /\ (Len(s) = 2 /\ s[1].target_xy = <<0, 0>> /\ s[2].target_xy = <<1, 1>>) =>
              \A f \in PredictInputs : Predict(f)' = <<<<1, 2>>, <<1, 2>>>>]_vars

\* C15 witness: predict() has returned (0.5, 0.5) on a fitted model.
C15_Witness ==
    /\ model_b = <<<<1, 2>>, <<1, 2>>>>
    /\ last = ReturnedVal("predict", <<<<1, 2>>, <<1, 2>>>>)

\* C16: a fit() that returns sets W and b from its own samples alone,
\* whatever the model held, and every other step (a failed fit, a predict)
\* leaves what predict() returns as it was; so predict() depends on the
\* samples of the last successful fit only.
C16_FitReplacesModel ==
    /\ [][\A s \in FitInputs : (Fittable(s) /\ ModelFit(s)) =>
            /\ model_W' = [r \in 1..2 |-> [i \in 1..Len(s[1].features) |-> 0]]
            /\ model_b' = <<TargetMean(s, 1), TargetMean(s, 2)>>]_vars
    /\ [][~(last'.op = "fit" /\ last'.out = "return") =>
            /\ \A f \in PredictInputs : Predict(f)' = Predict(f)
            /\ last'.op = "predict" =>
                 last'.val \in {Predict(f) : f \in PredictInputs}]_vars

\* C16 witness: a fit() has failed on a model fitted on the three-feature
\* sample with target (1, 0), which the model still holds.
C16_Witness ==
    /\ last = Raised("fit", ErrInconsistentDim)
    /\ model_W = <<<<0, 0, 0>>, <<0, 0, 0>>>>
    /\ model_b = <<<<1, 1>>, <<0, 1>>>>

\* Whether samples lie in the order of targets: each sample carries one of
\* the targets, and the positions of these targets never go backwards.
InTargetOrder(samples, targets) ==
    \E idx \in [1..Len(samples) -> 1..Len(targets)] :
      /\ \A i \in 1..Len(samples) : samples[i].target_xy = targets[idx[i]]
      /\ \A i, j \in 1..Len(samples) : i <= j => idx[i] <= idx[j]

\* A calibration routine has its list of samples returned by this step.
CalibrationReturns ==
    /\ loop.kind = "calib" /\ loop.pc = "return"
    /\ last'.op = "run_calibration_routine" /\ last'.out = "return"

\* C17: run_calibration_routine() visits the targets one after the other in
\* the order given, never changing the list; each sample collected is put at
\* the end of the list with the coordinates of the target being visited when
\* its frame was read and with the timestamp of that frame; the list
\* returned is the list collected, in the order of the targets.
C17_TargetsVisitedInOrder ==
    [][/\ (loop.kind = "calib" /\ loop'.kind = "calib") =>
            /\ loop'.targets = loop.targets
            /\ loop'.visited \in {loop.visited, loop.visited + 1}
            /\ loop'.visited # loop.visited =>
                 /\ loop.pc = "target"
                 /\ loop'.target = loop.targets[loop'.visited]
            /\ loop'.visited = loop.visited => loop'.target = loop.target
       /\ (loop.kind = "calib" /\ loop'.kind = "calib"
             /\ loop'.collected # loop.collected) =>
            /\ loop.pc = "body"
            /\ Len(loop'.collected) = Len(loop.collected) + 1
            /\ SubSeq(loop'.collected, 1, Len(loop.collected)) = loop.collected
            /\ loop'.collected[Len(loop'.collected)].target_xy
                 = loop.targets[loop.visited]
            /\ loop'.collected[Len(loop'.collected)].timestamp = loop.ts
       /\ CalibrationReturns =>
            /\ last'.val = loop.collected
            /\ InTargetOrder(last'.val, loop.targets)]_vars

\* C17 witness: the routine given (1, 1) then (0, 0) has returned one sample
\* of each, in that order.
C17_Witness ==
    /\ last.op = "run_calibration_routine" /\ last.out = "return"
    /\ Len(last.val) = 2
    /\ last.val[1].target_xy = <<1, 1>>
    /\ last.val[2].target_xy = <<0, 0>>

\* C18: in run_calibration_routine() the count of the target being visited
\* starts at 0, grows by one with each sample collected and never exceeds
\* max_samples_per_target, so the list never holds more than
\* max_samples_per_target samples for each target visited and the list
\* returned at most len(targets) * max_samples_per_target (2 for two targets
\* and a cap of 1); the routine advances its frame generator only where it
\* has just found the count below the cap and the time elapsed below
\* seconds_per_target.
C18_SamplesCapped ==
    [][/\ loop'.kind = "calib" =>
            /\ loop'.count <= loop'.max
            /\ Len(loop'.collected) <= loop'.visited * loop'.max
       /\ (loop.kind = "calib" /\ loop'.kind = "calib") =>
            /\ loop'.max = loop.max /\ loop'.limit = loop.limit
            /\ loop'.count = IF loop'.visited # loop.visited THEN 0
                             ELSE loop.count + Len(loop'.collected)
                                             - Len(loop.collected)
            /\ (nreads' # nreads \/ gen' # gen) =>
                 /\ loop.pc = "while"
                 /\ loop.count < loop.max
                 /\ now - loop.start < loop.limit
       /\ CalibrationReturns =>
            /\ Len(last'.val) <= Len(loop.targets) * loop.max
            /\ (Len(loop.targets) = 2 /\ loop.max = 1) => Len(last'.val) <= 2]_vars

\* C18 witness: the routine is back at its while condition with the cap of
\* the target reached, time left and a frame still to be read.
C18_Witness ==
    /\ loop.kind = "calib" /\ loop.pc = "while"
    /\ loop.count = loop.max
    /\ now - loop.start < loop.limit
    /\ is_open /\ nreads < MaxReads

\* C19: a run of run_calibration_routine() comes to its fit exactly when the
\* last target has been visited, and leaves it in one step for its return or
\* for an error, after which it only comes back to its caller.  That step
\* fits the model on the whole list collected when the list is not empty
\* (the model then holds the mean target of the list, or is as before and
\* the error of the fit is on its way out) and leaves the model as it was
\* when the list is empty; no other step of the run changes the model.
C19_FitOnceAtEnd ==
    [][loop.kind = "calib" =>
         /\ (loop'.pc = "fit" /\ loop.pc # "fit") =>
              /\ loop.pc = "target"
              /\ loop.visited = Len(loop.targets)
              /\ loop'.collected = loop.collected
         /\ (loop.pc = "fit" /\ loop' # loop) =>
              /\ loop'.pc \in {"return", "raise"}
              /\ loop'.collected = loop.collected
              /\ loop.collected = <<>> =>
                   model' = model /\ loop'.pc = "return"
              /\ Fittable(loop.collected) =>
                   /\ model_W' = [r \in 1..2 |->
                                   [i \in 1..Len(loop.collected[1].features) |-> 0]]
                   /\ model_b' = <<TargetMean(loop.collected, 1),
                                   TargetMean(loop.collected, 2)>>
                   /\ loop'.pc = "return"
              /\ Inconsistent(loop.collected) =>
                   /\ model' = model
                   /\ loop'.pc = "raise"
                   /\ loop'.err \in InconsistentFeatureDimension
         /\ loop.pc # "fit" => model' = model
         /\ (loop.pc \in {"return", "raise"} /\ loop' # loop) => loop' = NoLoop]_vars

\* C19 witness: the routine has returned one sample of (0, 0) and one of
\* (1, 1), and the model holds their mean target (0.5, 0.5).
C19_Witness ==
    /\ last.op = "run_calibration_routine" /\ last.out = "return"
    /\ Len(last.val) = 2
    /\ last.val[1].target_xy = <<0, 0>> /\ last.val[2].target_xy = <<1, 1>>
    /\ model_b = <<<<1, 2>>, <<1, 2>>>>

\* C20: once run_calibration_routine() is at its fit, it goes on to return
\* the whole list collected to its caller, whether the fit succeeds or
\* fails.  The code does not do this: an error of the fit leaves the routine
\* as "Calibration failed: ..." and the list is lost.
C20_ReturnsCollectedWhateverFit ==
    [][(loop.kind = "calib" /\ loop.pc = "fit" /\ loop' # loop) =>
         /\ loop'.pc = "return"
         /\ loop'.collected = loop.collected]_vars

\* C21: in run_calibration_routine(), the step that collects a sample calls
\* on_sample once with that sample when a callback was given, and no other
\* step of the routine calls it, so there is one call for each sample
\* collected; whether the call returns or raises, the routine goes on from
\* the same state: the sample is in the list, it is counted for its target,
\* and the routine is back at its while condition.
C21_OnSampleIsolated ==
    [][(loop.kind = "calib" /\ loop'.kind = "calib") =>
         /\ loop'.collected # loop.collected =>
              LET sample == loop'.collected[Len(loop'.collected)] IN
                /\ loop' = [loop EXCEPT
                              !.collected = Append(loop.collected, sample),
                              !.count = loop.count + 1,
                              !.pc = "while"]
                /\ IF loop.cb
                   THEN \E raised \in BOOLEAN :
                          calls' = Append(calls, [cb |-> "on_sample",
                                                  args |-> <<sample>>,
                                                  raised |-> raised])
                   ELSE calls' = calls
         /\ loop'.collected = loop.collected => calls' = calls
         /\ loop'.cb =>
              /\ Len(calls') = Len(loop'.collected)
              /\ \A i \in 1..Len(calls') :
                   calls'[i].args = <<loop'.collected[i]>>]_vars

\* C21 witness: the routine has returned two samples, on_sample having
\* raised on the first and been called with the second.
C21_Witness ==
    /\ last.op = "run_calibration_routine" /\ last.out = "return"
    /\ Len(last.val) = 2 /\ Len(calls) = 2
    /\ calls[1].raised
    /\ calls[2].args = <<last.val[2]>>

\* An iteration of run_inference_loop() is completed by this step: the body
\* has run to the deadline check.
IterationCompletes ==
    /\ loop.kind = "infer" /\ loop.pc = "body"
    /\ loop'.kind = "infer" /\ loop'.pc \in {"next", "return"}

\* C22: the step that completes an iteration of run_inference_loop() calls
\* on_result once, when a callback was given, with the timestamp and the
\* frame of the iteration, and whether the call returns or raises the loop
\* goes on to the frame that follows unless stop_after_seconds has elapsed;
\* no other step calls it, so a call that raised is never on a step that
\* sends an error to the caller.
C22_OnResultIsolated ==
    [][(loop.kind = "infer" /\ loop'.kind = "infer") =>
         /\ IterationCompletes =>
              /\ loop' = [loop EXCEPT
                            !.pc = IF loop.limit # NoLimit
                                      /\ now - loop.start >= loop.limit
                                   THEN "return" ELSE "next"]
              /\ IF loop.cb
                 THEN /\ Len(calls') = Len(calls) + 1
                      /\ SubSeq(calls', 1, Len(calls)) = calls
                      /\ calls'[Len(calls')].cb = "on_result"
                      /\ calls'[Len(calls')].args[1] = loop.ts
                      /\ calls'[Len(calls')].args[2] = loop.frame
                 ELSE calls' = calls
         /\ ~IterationCompletes => calls' = calls]_vars

\* C22 witness: on_result has raised on the first frame of a run and has
\* been called with the second.
C22_Witness ==
    /\ Len(calls) = 2
    /\ calls[1].cb = "on_result" /\ calls[1].raised /\ calls[1].args[2] = 1
    /\ calls[2].cb = "on_result" /\ calls[2].args[2] = 2

\* C23: a run_inference_loop() given stop_after_seconds comes back to its
\* caller, however many frames the source goes on delivering, when the clock
\* moves forward with each frame.  The deadline is tested where an
\* iteration completes and nowhere else: the loop goes to its return exactly
\* when stop_after_seconds is set and has elapsed since the start, it reads
\* a frame only where it is about to start an iteration, and once at its
\* return it only comes back.  Without stop_after_seconds the loop returns
\* only on a next() that found the frame sequence ended.
C23_DeadlineEndsLoop ==
    /\ [](loop.kind = "infer" /\ loop.limit # NoLimit => <>(loop = NoLoop))
    /\ [][IterationCompletes =>
            (loop'.pc = "return" <=>
               (loop.limit # NoLimit /\ now - loop.start >= loop.limit))]_vars
    /\ [][loop.kind = "infer" =>
            /\ (nreads' # nreads \/ gen' # gen) =>
                 loop.pc \in {"next", "return", "raise"}
            /\ nreads' # nreads => loop.pc = "next"
            /\ (loop.pc = "return" /\ loop' # loop) => loop' = NoLoop
            /\ (loop.limit = NoLimit /\ loop.pc # "return"
                  /\ loop'.kind = "infer" /\ loop'.pc = "return") =>
                 last'.op = "next" /\ last'.out = "stop"]_vars

\* C23 witness: a loop given stop_after_seconds = 1 is at its return one
\* second after its start, its last next() having yielded a frame of a
\* source that is still open and can deliver more.
C23_Witness ==
    /\ loop.kind = "infer" /\ loop.pc = "return"
    /\ loop.limit = 1 /\ now - loop.start >= 1
    /\ last.op = "next" /\ last.out = "yield"
    /\ is_open /\ nreads < MaxReads

\* The errors of the pipeline stages.
StageErrors ==
    {ErrPreprocessFailed, ErrFeatureFailed, ErrNpRequired, ErrGazeFailed}

\* C24: a failure of process_frame, extract_features or estimate_gaze on a
\* frame, inside run_inference_loop() or the collection of
\* run_calibration_routine(), does not end the routine: the body of an
\* iteration never leaves the routine with a stage's error on its way to
\* the caller.  The code does not do this: no stage call is guarded, and the
\* error ends the routine.
C24_StageFailureKeepsLoop ==
    [][(loop.kind \in {"infer", "calib"} /\ loop.pc = "body") =>
         ~(loop'.pc = "raise" /\ loop'.err \in StageErrors)]_vars

\* The error kinds of the stages, as sets of raise sites: the wrapper each
\* stage puts around what its caller-supplied function raised.
PreprocessFailure == {ErrPreprocessFailed}
FeatureExtractionFailure == {ErrFeatureFailed}
GazeEstimationFailure == {ErrGazeFailed}

\* C25: process_frame() raises only when a preprocess function is set, and
\* then its own wrapper; extract_features() with an extractor set and
\* estimate_gaze() likewise raise their own wrappers only; the three
\* wrappers differ from one another, so the error names the stage that
\* failed.
C25_OverrideFailureKinds ==
    [][/\ (last'.op = "process_frame" /\ last'.out = "raise") =>
            preprocess_fn # "None" /\ last'.err \in PreprocessFailure
       /\ (last'.op = "extract_features" /\ last'.out = "raise"
             /\ feature_extractor # "None") =>
            last'.err \in FeatureExtractionFailure
       /\ (last'.op = "estimate_gaze" /\ last'.out = "raise") =>
            gaze_estimator # "None" /\ last'.err \in GazeEstimationFailure
       /\ last'.err \in PreprocessFailure => last'.op = "process_frame"
       /\ last'.err \in FeatureExtractionFailure => last'.op = "extract_features"
       /\ last'.err \in GazeEstimationFailure => last'.op = "estimate_gaze"
       /\ PreprocessFailure \cap FeatureExtractionFailure = {}
       /\ PreprocessFailure \cap GazeEstimationFailure = {}
       /\ FeatureExtractionFailure \cap GazeEstimationFailure = {}]_vars

\* C25 witness: with the three stage functions set, the feature extractor
\* has failed and extract_features() has raised its wrapper.
C25_Witness ==
    /\ preprocess_fn = "fn" /\ feature_extractor = "fn" /\ gaze_estimator = "fn"
    /\ last = Raised("extract_features", ErrFeatureFailed)

\* C26: the gaze run_inference_loop() delivers to on_result with the
\* features of a frame is what the calibration model predicts for them when
\* the tracker has no gaze estimator of its caller, (NaN, NaN) as long as
\* nothing was fitted, and what the caller's estimator returns when there
\* is one, whatever the model holds.  Only the fit of a
\* run_calibration_routine() changes the model, and when the routine returns
\* the samples it collected the model predicts the mean of their targets.
C26_DefaultGazeIsModel ==
    [][/\ (IterationCompletes /\ loop.cb) =>
            LET r == calls'[Len(calls')].args IN
              /\ gaze_estimator = "None" => r[3] = Predict(r[4])
              /\ (gaze_estimator = "None" /\ model = <<Unset, Unset>>) =>
                   r[3] = <<NaN, NaN>>
              /\ gaze_estimator # "None" => r[3] = UserGaze(r[4])
       /\ (CalibrationReturns /\ last'.val # <<>>) =>
            \A f \in PredictInputs :
              Predict(f)' = <<TargetMean(last'.val, 1), TargetMean(last'.val, 2)>>
       /\ model' # model => loop.kind = "calib" /\ loop.pc = "fit"]_vars

\* C26 witness: on a tracker without a gaze estimator of its caller, whose
\* model was fitted on the target (1, 1), on_result has been given (1, 1).
C26_Witness ==
    /\ gaze_estimator = "None"
    /\ model_b = <<Frac(1, 1), Frac(1, 1)>>
    /\ calls # <<>>
    /\ calls[1].cb = "on_result"
    /\ calls[1].args[3] = <<Frac(1, 1), Frac(1, 1)>>

\* The handle h has been released: some release() call was made on it.
Released(h) == \E i \in 1..Len(releases) : releases[i] = h

\* C29: when the error of a stage leaves run_inference_loop() or
\* run_calibration_routine(), the tracker is Closed and the handle it held
\* has been released by the time the caller has the error.  The code does
\* not do this: the routines release nothing, and the tracker stays Open
\* unless the caller closes it (as the exit of a with block does).
C29_ErrorExitReleases ==
    [][(loop.pc = "raise" /\ loop.err \in StageErrors /\ loop' = NoLoop) =>
         /\ ~is_open' /\ cap' = None
         /\ \A h \in 1..MaxCaps : cap = h => Released(h)']_vars

\* The number of release() calls made on the handle h.
ReleaseCount(h) == Cardinality({i \in 1..Len(releases) : releases[i] = h})

\* C28: a handle is never released twice, and a step that takes a handle
\* away from the tracker releases it or leaves it to a close() in progress
\* that has read it, whatever the order in which the steps of the close()
\* calls of several threads are taken.  The code does not do this: two
\* close() calls that both read self._cap before either clears it both
\* release the handle, and a close() that read None before an open() clears
\* the handle the open() stored without releasing it.
C28_ReleasedExactlyOnce ==
    /\ [](\A h \in 1..MaxCaps : ReleaseCount(h) <= 1)
    /\ [][\A h \in 1..MaxCaps : (cap = h /\ cap' # h) =>
            \/ Released(h)'
            \/ \E i \in 1..Len(closing') : closing'[i] = h]_vars

\* C27: once another thread has closed the tracker, a routine in progress
\* (on an installation with OpenCV and NumPy, and with the default stages)
\* comes to its end without an error on its way to the caller, and it reads
\* no frame from a handle that has been released.  The code does not do
\* this: a close() after the routine's own check and before the first
\* advance of frames() makes frames() raise that the stream is not open, and
\* a close() between the while condition of frames() and self._cap.read()
\* makes the read raise AttributeError.
C27_CloseEndsLoopQuietly ==
    /\ [][(loop.kind # "none" /\ cv2_loaded /\ np_loaded /\ ~is_open') =>
            ~(loop.pc # "raise" /\ loop'.pc = "raise")]_vars
    /\ [][\A h \in 1..MaxCaps :
            (nreads' # nreads /\ cap = h) => ~Released(h)]_vars

\* The generator g is being drained: it has yielded a frame and has not
\* finished.
Draining(g) == g \in 1..Len(gen) /\ gen[g] = GenSuspended

\* C30: the collection of a run_calibration_routine() and a
\* run_inference_loop() are never both in the middle of the frames of one
\* open tracker, each having been given a frame and neither having
\* finished.  The code does not do this: each call checks that the tracker
\* is open and nothing else, makes its own generator over the one handle,
\* and the two take frames in turn.
C30_OneConsumer ==
    ~(/\ loop.kind = "calib" /\ Draining(loop.g)
      /\ other.pc = "next" /\ Draining(other.g))

(***************************************************************************)
(* run_inference_loop: what on_result is called with, and how often.       *)
(***************************************************************************)
\* The frames the routine has taken from its generator and has not yet
\* carried through the body: 1 while it is before the body, else 0.
Pending(l) == IF l.kind = "infer" /\ l.pc = "body" THEN 1 ELSE 0

\* A step of a run_inference_loop() call that was given a callback.
InferStep == loop.kind = "infer" /\ loop.cb /\ loop'.kind = "infer"

\* The step is a stage raising in the body: the frame is dropped.
Dropped == IF loop.pc = "body" /\ loop'.pc = "raise" THEN 1 ELSE 0

\* The on_result call made for the frame and timestamp in hand: one whose
\* arguments are the timestamp, an outcome of process_frame on the frame,
\* an outcome of estimate_gaze on the features, and the features, which
\* are an outcome of extract_features on the processed frame.
IsResultOf(c, ts, frame) ==
    /\ c.cb = "on_result"
    /\ Len(c.args) = 4
    /\ c.args[1] = ts
    /\ StageOk(<<c.args[2]>>) \in ProcessFrameOutcomes(frame)
    /\ StageOk(c.args[4]) \in ExtractFeaturesOutcomes(c.args[2])
    /\ StageOk(c.args[3]) \in EstimateGazeOutcomes(c.args[4])

\* C31 as stated: in a run_inference_loop() call with a callback, every
\* frame read (every growth of the frame counter) is matched by exactly
\* one on_result call once its iteration is over, so that the number of
\* on_result calls equals the growth of the frame counter.
C31_OnResultOncePerFrameRead ==
    [][InferStep =>
         frame_count' - frame_count =
           (Len(calls') - Len(calls)) + (Pending(loop') - Pending(loop))]_vars

\* C31, amended: on_result is called exactly once for every frame read
\* whose three stages succeed, in the order the frames are read, with the
\* frame's timestamp, its processed frame, the gaze estimated from its
\* features and the features; a frame on which a stage raises gets no
\* on_result call, so the number of calls equals the growth of the frame
\* counter less the frames dropped that way.
C31_OnResultOncePerProcessedFrame ==
    /\ [][InferStep =>
            frame_count' - frame_count =
              (Len(calls') - Len(calls)) + (Pending(loop') - Pending(loop))
              + Dropped]_vars
    /\ [][(InferStep /\ loop'.pc = "body" /\ loop.pc # "body") =>
            /\ last'.out = "yield"
            /\ loop'.ts = last'.val[1]
            /\ loop'.frame = last'.val[2]
            /\ loop'.frame = nreads']_vars
    /\ [][(InferStep /\ loop.pc = "body" /\ loop' # loop /\ Dropped = 0) =>
            /\ Len(calls') = Len(calls) + 1
            /\ SubSeq(calls', 1, Len(calls)) = calls
            /\ IsResultOf(calls'[Len(calls')], loop.ts, loop.frame)]_vars
    /\ []((loop.kind = "infer" /\ loop.cb) =>
            \E k \in 0..MaxReads :
              /\ \A i \in 1..Len(calls) :
                   StageOk(<<calls[i].args[2]>>) \in ProcessFrameOutcomes(k + i)
              /\ loop.pc = "body" => loop.frame = k + Len(calls) + 1)

\* Two frames have been read and delivered in one call.
C31_Witness ==
    /\ loop.kind = "infer" /\ loop.cb
    /\ Len(calls) = 2
    /\ frame_count = 2

(***************************************************************************)
(* The stages and the tracker's lifecycle state.                           *)
(***************************************************************************)
StageOps == {"process_frame", "extract_features", "estimate_gaze"}

\* C32: a call of process_frame, extract_features or estimate_gaze, whether
\* it returns or raises, leaves the Open/Closed status, the handle, the
\* frame counter, the last-frame timestamp, the FPS window and the
\* calibration model as they were.
C32_StagesKeepLifecycleState ==
    [][last'.op \in StageOps =>
         /\ last'.out \in {"return", "raise"}
         /\ UNCHANGED <<is_open, cap, frame_count, last_frame_ts, recent_fps>>
         /\ UNCHANGED <<model_W, model_b>>]_vars

\* C32 witness: a stage has raised on an Open tracker that has counted
\* frames, holds an FPS sample and a fitted model.
C32_Witness ==
    /\ last.op \in StageOps /\ last.out = "raise"
    /\ is_open /\ cap # None
    /\ frame_count > 0 /\ recent_fps # <<>>
    /\ model_W # Unset /\ model_b # Unset

(***************************************************************************)
(* run_calibration_routine and malformed target lists.                     *)
(***************************************************************************)
\* The routine is leaving with the error of a malformed entry.
MalformedTargetRaised ==
    /\ loop.kind = "calib" /\ loop.pc = "raise"
    /\ \E t \in MalformedInputs : loop.err = UnpackError(t)

\* C33: when run_calibration_routine fails on a malformed target list, it
\* has taken no frame from its frame sequence, collected no sample and
\* called on_sample not once.
C33_MalformedTargetsFailFast ==
    MalformedTargetRaised =>
      /\ loop.frame = 0
      /\ loop.collected = <<>>
      /\ calls = <<>>

(***************************************************************************)
(* run_calibration_routine when the frames run out.                        *)
(***************************************************************************)
\* The routine's frame sequence has ended (StopIteration) during the call.
RanOut == loop.kind = "calib" /\ last.op = "next" /\ last.out = "stop"

\* C34: once the frame sequence has ended during run_calibration_routine,
\* no further sample is collected (every later target gets none), the
\* routine visits the remaining targets and returns without raising, and
\* the fit is made on exactly the samples collected before (no fit and the
\* model unchanged if there are none).
C34_ExhaustedStreamStillFits ==
    /\ [][(RanOut /\ loop'.kind = "calib") =>
            /\ loop'.collected = loop.collected
            /\ loop'.count = 0 \/ loop'.count = loop.count
            /\ nreads' = nreads]_vars
    /\ [][(RanOut /\ loop.pc = "fit" /\ loop' # loop) =>
            IF loop.collected = <<>> THEN UNCHANGED model
            ELSE /\ FitError(loop.collected) = ""
                 /\ model_W' = FitW(loop.collected)
                 /\ model_b' = FitB(loop.collected)]_vars
    /\ [](RanOut =>
            /\ loop.pc # "raise"
            /\ loop.pc = "return" => loop.visited = Len(loop.targets))

(***************************************************************************)
(* The Open flag and the handle.                                           *)
(***************************************************************************)
\* C35: whatever a single caller calls (open, close, frames and its
\* advances, the two routines), the tracker is Open exactly when it holds a
\* handle.
C35_OpenIffHandle == is_open <=> cap # None

\* C35 witness: after a session that was closed, an open() has failed on a
\* VideoCapture that did not report itself opened; the tracker is Closed
\* and holds no handle.
C35_Witness ==
    /\ releases # <<>>
    /\ last.op = "open" /\ last.out = "raise" /\ last.dev = "closed"
    /\ ~is_open /\ cap = None

(***************************************************************************)
(* Frame sequences across close() and a re-open.                           *)
(***************************************************************************)
\* A session has been closed: close() has released a handle.
SessionClosed == releases # <<>>

\* C36: a frame sequence obtained before close() yields no frame after
\* close(), re-opened or not.  (Under SpecReopen every sequence was
\* obtained before the first close(), and close() replaces `last`, so a
\* yield in `last` once a session has been closed is a yield made after
\* close().)
C36_OldSequenceStaysEnded ==
    SessionClosed => last.out # "yield"

(***************************************************************************)
(* UserProfile: the favorite phrases.                                      *)
(***************************************************************************)
NoDuplicates(q) == \A i, j \in 1..Len(q) : q[i] = q[j] => i = j

\* The step is a call of add_favorite_phrase.
AddStep == last'.op = "add_favorite_phrase" /\ last' # last

\* C37: the list of favorite phrases never holds a phrase twice nor the
\* empty phrase; add_favorite_phrase returns True exactly when it appended
\* the stripped phrase, and returns False and leaves the list as it was
\* when the phrase is present already, is empty or is no string.
C37_PhrasesUniqueNonEmpty ==
    /\ [](/\ NoDuplicates(favorite_phrases)
          /\ \A i \in 1..Len(favorite_phrases) : favorite_phrases[i] # <<>>)
    /\ [][AddStep =>
            LET p == last'.val[2] IN
              /\ last'.val[1] \in BOOLEAN
              /\ last'.val[1] =>
                   favorite_phrases' = Append(favorite_phrases, Strip(p.text))
              /\ ~last'.val[1] => UNCHANGED favorite_phrases
              /\ (\/ p.type # "str"
                  \/ p.text = <<>>
                  \/ InList(Strip(p.text), favorite_phrases))
                   => ~last'.val[1]]_vars

(***************************************************************************)
(* SuggestionGenerator: cached and uncached word suggestions.              *)
(***************************************************************************)
\* The step is a suggest_words(context, limit) call.
SuggestStep == last'.op = "suggest_words"

\* C38: with caching enabled a suggest_words call with a non-empty context
\* and a limit that were used before returns what the first such call
\* returned and does not consult the model; and whatever suggest_words
\* returns for a limit of 1 or more has no duplicates and at most limit
\* entries.
C38_CachedAndBounded ==
    /\ [][\A key \in DOMAIN cache_word :
            (SuggestStep /\ enable_cache /\ key[1] = last'.val[2]
               /\ key[2] = EffLimit(last'.val[3])) =>
              /\ last'.val[1] = cache_word[key]
              /\ last'.dev # "model"
              /\ cache_word'[key] = cache_word[key]]_vars
    /\ []((last.op = "suggest_words" /\ last.val[3] >= 1) =>
            /\ NoDuplicates(last.val[1])
            /\ Len(last.val[1]) <= last.val[3])

=============================================================================
